---- MODULE Spec2Model ----
(***************************************************************************)
(* Model of the HubSpot -> BigQuery snapshot ETL (src/etl-pipeline/main.py) *)
(*                                                                         *)
(* The module holds one state machine per component of the pipeline:       *)
(*   - the snapshot loader           (load_to_bigquery, ensure_table_exists)*)
(*   - the paginated deal fetcher    (fetch_all_deals)                      *)
(*   - the association resolver      (fetch_associated_contacts)            *)
(*   - the record transformer        (transform_deals)                      *)
(*   - the orchestrator              (hubspot_to_bigquery_etl)              *)
(* Each component has its own specification (SpecLoad, SpecFetch, ...);    *)
(* the variables of the components a specification does not run stay at    *)
(* their initial values.                                                   *)
(***************************************************************************)
EXTENDS Integers, Sequences, FiniteSets, Bags, TLC

VARIABLES
    \* ---- warehouse (BigQuery) ----
    dataset_exists,     \* the dataset PROJECT_ID.DATASET_ID exists
    tables,             \* table name -> [exists, rows (a bag of rows)]
    \* ---- load_to_bigquery, one slot per run ----
    ld_pc,              \* run -> position inside load_to_bigquery
    ld_table,           \* run -> the table being loaded
    ld_df,              \* run -> the DataFrame being loaded (sequence of rows)
    ld_ret,             \* run -> value returned (rows written), -1 before return
    ld_prev,            \* history: run -> how the previous run of the slot ended
    wh_lastCompleted,   \* history: table -> date -> DataFrame of the last completed load
    ld_repeat,          \* history: the last completed load re-loaded an identical DataFrame
    \* ---- fetch_all_deals ----
    fd_pc,              \* "off", "running", "returned" or "raised"
    fd_source,          \* the pages of deals the API serves (sequence of pages)
    target_pipeline_id, \* the pipeline filter passed in (NoneValue = no filter)
    after,              \* the page cursor (0 = None)
    retry_count,
    page_count,
    all_deals,
    fd_wait,            \* seconds slept after the last attempt (0 = no sleep)
    fd_fails,           \* history: consecutive failed attempts on the current page
    fd_failTotal,       \* history: failed get_page attempts so far
    fd_status,          \* outcome of the last get_page call (0 before the first)
    \* ---- fetch_associated_contacts ----
    fc_pc,              \* "off", "listing", "hydrating", "returned" or "raised"
    attempt,            \* index of the listing attempt (0-based)
    contact_ids,        \* ids returned by the association listing
    fc_idx,             \* position in contact_ids of the id being hydrated
    contact_attempt,    \* index of the hydration attempt of that id (0-based)
    contacts,           \* the result list
    fc_wait,            \* seconds slept after the last call (0 = no sleep)
    fc_listHist,        \* history: outcomes of the listing calls
    fc_hist,            \* history: per listed id, outcomes of its get_by_id calls
    fc_failTotal,       \* history: failed calls so far
    \* ---- transform_deals (one deal) ----
    tr_pc,              \* "off", "ready" or "done"
    pipelines_dict,     \* pipeline id -> [label, stages: stage id -> label]
    stages_dict,        \* stage id -> [label]
    tr_props,           \* the properties of the deal being transformed
    tr_row,             \* the record built for it
    \* ---- hubspot_to_bigquery_etl ----
    etl_pc,             \* position inside hubspot_to_bigquery_etl
    start_time,         \* [date, stamp] read at the start of the run
    deals,              \* the list returned by fetch_all_deals
    rows_loaded,
    meetings,           \* the list returned by fetch_all_meetings
    etl_result,         \* the result object returned
    etl_failed,         \* history: the steps of the run that failed
    pipelines_lookup,   \* history: outcome of fetch_pipelines in the run
    etl_trace,          \* history: the steps of the run, in execution order
    now,                \* the clock: the [date, stamp] datetime.now() returns
    \* ---- one call of a function of the transformer or of the loaders ----
    call_pc,            \* "off", "ready" or "done"
    call_args,          \* the arguments of the call
    call_ret            \* the value returned

load_vars == <<dataset_exists, tables, ld_pc, ld_table, ld_df, ld_ret, ld_prev,
               wh_lastCompleted, ld_repeat>>

fetch_vars == <<fd_pc, fd_source, target_pipeline_id, after, retry_count,
                page_count, all_deals, fd_wait, fd_fails, fd_failTotal,
                fd_status>>

contact_vars == <<fc_pc, attempt, contact_ids, fc_idx, contact_attempt,
                  contacts, fc_wait, fc_listHist, fc_hist, fc_failTotal>>

transform_vars == <<tr_pc, pipelines_dict, stages_dict, tr_props, tr_row>>

etl_vars == <<etl_pc, start_time, deals, rows_loaded, meetings, etl_result,
              etl_failed, pipelines_lookup, etl_trace, now>>

call_vars == <<call_pc, call_args, call_ret>>

vars == <<load_vars, fetch_vars, contact_vars, transform_vars, etl_vars,
          call_vars>>

not_load_vars == <<fetch_vars, contact_vars, transform_vars, etl_vars, call_vars>>
not_fetch_vars == <<load_vars, contact_vars, transform_vars, etl_vars, call_vars>>
not_contact_vars == <<load_vars, fetch_vars, transform_vars, etl_vars, call_vars>>
not_transform_vars == <<load_vars, fetch_vars, contact_vars, etl_vars, call_vars>>
not_call_vars == <<load_vars, fetch_vars, contact_vars, transform_vars, etl_vars>>

----------------------------------------------------------------------------
(* Bounds of the model *)
NumRuns == 2
MaxDealId == 2          \* deal ids of the snapshots of date "d1"
MaxOtherDealId == 1     \* deal ids of the snapshots of date "d2"
MaxStamp == 2           \* distinct snapshot instants per date

MaxRecords == 3         \* deals held by the source
MaxPageSize == 2        \* deals per page served by the source
MaxFailures == 7        \* failed get_page attempts in one fetch_all_deals call

MaxListed == 3          \* contact ids of an association listing
MaxContactFailures == 5 \* failed calls in one fetch_associated_contacts call

MaxWords == 3           \* words of a stage label
MaxEtlRecords == 2      \* deals held by the source in a run of the pipeline
MaxMeetings == 2        \* meetings held by the source (one per page)

MaxAmountChars == 3     \* characters of a raw 'amount' property
MaxProbabilityChars == 2 \* characters of a raw 'hs_deal_stage_probability'

MaxDay == 2             \* days of January 1970 the source timestamps lie in

MaxAgeWords == 2        \* words of a stage label given to the age classifier

MaxOwnerId == 2         \* owner ids are 1..MaxOwnerId
MaxOwnersListed == 2    \* owners of the active listing and of the archived one
MaxOwnersPerPage == 1   \* owners on one page of a listing (the limit of get_page)

(* Program constants *)
DEALS_TABLE == "deals_snapshots"
MEETINGS_TABLE == "meetings_snapshots"

NoneValue == "None"     \* Python's None
PipelineIds == {"p1", "p2"}
ApiStatuses == {429, 403, 500}

Runs == 1..NumRuns
Stamps == 1..MaxStamp
Dates == {"d1", "d2"}
DealIdsOn(d) == IF d = "d1" THEN 1..MaxDealId ELSE 1..MaxOtherDealId
TableNames == {DEALS_TABLE, MEETINGS_TABLE}

----------------------------------------------------------------------------
(* Generic helpers *)
Range(s) == {s[i] : i \in DOMAIN s}

Min(a, b) == IF a <= b THEN a ELSE b

RECURSIVE BagOfSeq(_)
BagOfSeq(s) == IF s = <<>> THEN EmptyBag
               ELSE SetToBag({Head(s)}) (+) BagOfSeq(Tail(s))

----------------------------------------------------------------------------
(* Snapshot rows and DataFrames *)

\* A snapshot row: the external id and the snapshot metadata (the other
\* columns play no part in the load).
Row(i, d, t) == [hs_object_id |-> i, snapshot_date |-> d, snapshot_timestamp |-> t]

\* The sequence of the elements of a set of integers, ascending.
RECURSIVE Ascending(_)
Ascending(S) == IF S = {} THEN <<>>
                ELSE LET m == CHOOSE x \in S : \A y \in S : x <= y
                     IN  <<m>> \o Ascending(S \ {m})

\* DataFrames produced by transform_deals in a run of snapshot date d and
\* snapshot instant t: one row per deal, every row carrying d and t; the
\* empty DataFrame included.
DataFramesOf(d) ==
    {[k \in 1..Cardinality(ids) |-> Row(Ascending(ids)[k], d, t)] :
         ids \in SUBSET DealIdsOn(d), t \in Stamps}

DataFrames == UNION {DataFramesOf(d) : d \in Dates}

\* df['snapshot_date'].iloc[0]
BatchDate(df) == df[1].snapshot_date

\* The rows of a table (a bag) stored for snapshot date d.
Partition(rows, d) ==
    LET keep == {r \in DOMAIN rows : r.snapshot_date = d}
    IN  [r \in keep |-> rows[r]]

\* DELETE FROM table WHERE snapshot_date = d
DeleteWhereDateEveryRow(rows, d) == EmptyBag

DeleteWhereDateKeepAll(rows, d) == rows

DeleteWhereDateInverted(rows, d) == Partition(rows, d)

DeleteWhereDate(rows, d) ==
    LET keep == {r \in DOMAIN rows : r.snapshot_date # d}
    IN  [r \in keep |-> rows[r]]

\* load_table_from_dataframe with WRITE_APPEND
AppendRows(rows, df) == rows (+) BagOfSeq(df)

----------------------------------------------------------------------------
(* load_to_bigquery *)

InFlight(r) == ld_pc[r] \in {"ensure", "delete", "append", "appended"}

\* Entry of load_to_bigquery: the empty-DataFrame early return, else the
\* BigQuery client is created and the load proceeds.
LoadStartEnsuringFirst(r, table, df) ==
    /\ ~InFlight(r)
    /\ ld_table' = [ld_table EXCEPT ![r] = table]
    /\ ld_df' = [ld_df EXCEPT ![r] = df]
    /\ ld_repeat' = FALSE
    /\ ld_prev' = [ld_prev EXCEPT ![r] = ld_pc[r]]
    /\ IF df = <<>>
       THEN /\ ld_pc' = [ld_pc EXCEPT ![r] = "done"]
            /\ ld_ret' = [ld_ret EXCEPT ![r] = 0]
            /\ tables' = [tables EXCEPT ![table].exists = TRUE]
       ELSE /\ ld_pc' = [ld_pc EXCEPT ![r] = "ensure"]
            /\ ld_ret' = [ld_ret EXCEPT ![r] = -1]
            /\ UNCHANGED tables
    /\ UNCHANGED <<dataset_exists, wh_lastCompleted>>

LoadStart(r, table, df) ==
    /\ ~InFlight(r)
    /\ ld_table' = [ld_table EXCEPT ![r] = table]
    /\ ld_df' = [ld_df EXCEPT ![r] = df]
    /\ ld_repeat' = FALSE
    /\ ld_prev' = [ld_prev EXCEPT ![r] = ld_pc[r]]
    /\ IF df = <<>>
       THEN /\ ld_pc' = [ld_pc EXCEPT ![r] = "done"]
            /\ ld_ret' = [ld_ret EXCEPT ![r] = 0]
       ELSE /\ ld_pc' = [ld_pc EXCEPT ![r] = "ensure"]
            /\ ld_ret' = [ld_ret EXCEPT ![r] = -1]
    /\ UNCHANGED <<dataset_exists, tables, wh_lastCompleted>>

\* ensure_table_exists: get_table; on any exception get_dataset /
\* create_dataset(exists_ok) and create_table.
\*   lookup  : outcome of get_table ("ok" only for an existing table)
\*   dsLookup: outcome of get_dataset ("ok" only for an existing dataset)
\*   dsOk    : create_dataset (when needed) succeeds
\*   createOk: create_table does not fail for a reason of its own
ensure_table_exists(r, lookup, dsLookup, dsOk, createOk) ==
    /\ ld_pc[r] = "ensure"
    /\ ld_table[r] = DEALS_TABLE
    /\ lookup = "ok" => tables[DEALS_TABLE].exists
    /\ dsLookup = "ok" => dataset_exists
    /\ IF lookup = "ok"
       THEN /\ ld_pc' = [ld_pc EXCEPT ![r] = "delete"]
            /\ UNCHANGED <<dataset_exists, tables>>
       ELSE IF dsLookup # "ok" /\ ~dsOk
       THEN \* create_dataset raised
            /\ ld_pc' = [ld_pc EXCEPT ![r] = "raised"]
            /\ UNCHANGED <<dataset_exists, tables>>
       ELSE /\ dataset_exists' = TRUE
            /\ IF tables[DEALS_TABLE].exists \/ ~createOk
               THEN \* create_table raised (Conflict, or its own failure)
                    /\ ld_pc' = [ld_pc EXCEPT ![r] = "raised"]
                    /\ UNCHANGED tables
               ELSE /\ tables' = [tables EXCEPT ![DEALS_TABLE].exists = TRUE]
                    /\ ld_pc' = [ld_pc EXCEPT ![r] = "delete"]
    /\ UNCHANGED <<ld_table, ld_df, ld_ret, ld_prev, wh_lastCompleted, ld_repeat>>

\* The "ensure table exists" block of load_meetings_to_bigquery: get_table;
\* on any exception create_table (the dataset is not created here).
MeetingsEnsureTable(r, lookup, createOk) ==
    /\ ld_pc[r] = "ensure"
    /\ ld_table[r] = MEETINGS_TABLE
    /\ lookup = "ok" => tables[MEETINGS_TABLE].exists
    /\ IF lookup = "ok"
       THEN /\ ld_pc' = [ld_pc EXCEPT ![r] = "delete"]
            /\ UNCHANGED tables
       ELSE IF tables[MEETINGS_TABLE].exists \/ ~dataset_exists \/ ~createOk
       THEN \* create_table raised (Conflict, NotFound, or its own failure)
            /\ ld_pc' = [ld_pc EXCEPT ![r] = "raised"]
            /\ UNCHANGED tables
       ELSE /\ tables' = [tables EXCEPT ![MEETINGS_TABLE].exists = TRUE]
            /\ ld_pc' = [ld_pc EXCEPT ![r] = "delete"]
    /\ UNCHANGED <<dataset_exists, ld_table, ld_df, ld_ret, ld_prev,
                   wh_lastCompleted, ld_repeat>>

\* The DELETE query job of load_to_bigquery / load_meetings_to_bigquery.
LoadDelete(r, ok) ==
    /\ ld_pc[r] = "delete"
    /\ IF ok
       THEN /\ tables' = [tables EXCEPT ![ld_table[r]].rows =
                            DeleteWhereDate(@, BatchDate(ld_df[r]))]
            /\ ld_pc' = [ld_pc EXCEPT ![r] = "append"]
       ELSE /\ ld_pc' = [ld_pc EXCEPT ![r] = "raised"]
            /\ UNCHANGED tables
    /\ UNCHANGED <<dataset_exists, ld_table, ld_df, ld_ret, ld_prev,
                   wh_lastCompleted, ld_repeat>>

\* The load job (WRITE_APPEND); a load job is atomic.
LoadAppend(r, ok) ==
    /\ ld_pc[r] = "append"
    /\ IF ok
       THEN /\ tables' = [tables EXCEPT ![ld_table[r]].rows =
                            AppendRows(@, ld_df[r])]
            /\ ld_pc' = [ld_pc EXCEPT ![r] = "appended"]
            /\ wh_lastCompleted' =
                  [wh_lastCompleted EXCEPT
                      ![ld_table[r]][BatchDate(ld_df[r])] = ld_df[r]]
            /\ ld_repeat' =
                  (wh_lastCompleted[ld_table[r]][BatchDate(ld_df[r])] = ld_df[r])
       ELSE /\ ld_pc' = [ld_pc EXCEPT ![r] = "raised"]
            /\ UNCHANGED <<tables, wh_lastCompleted, ld_repeat>>
    /\ UNCHANGED <<dataset_exists, ld_table, ld_df, ld_ret, ld_prev>>

\* return job.output_rows
LoadReturn(r) ==
    /\ ld_pc[r] = "appended"
    /\ ld_pc' = [ld_pc EXCEPT ![r] = "done"]
    /\ ld_ret' = [ld_ret EXCEPT ![r] = Len(ld_df[r])]
    /\ UNCHANGED <<dataset_exists, tables, ld_table, ld_df, ld_prev,
                   wh_lastCompleted, ld_repeat>>

\* The process running the load dies: before its first step, or after the
\* ensure, the delete or the append step.
CrashedAt(pc) == CASE pc = "ensure"   -> "crashed_at_start"
                   [] pc = "delete"   -> "crashed_after_ensure"
                   [] pc = "append"   -> "crashed_after_delete"
                   [] pc = "appended" -> "crashed_after_append"

LoadCrash(r) ==
    /\ InFlight(r)
    /\ ld_pc' = [ld_pc EXCEPT ![r] = CrashedAt(ld_pc[r])]
    /\ UNCHANGED <<dataset_exists, tables, ld_table, ld_df, ld_ret, ld_prev,
                   wh_lastCompleted, ld_repeat>>

\* load_to_bigquery called by one run after another: every run of the
\* sequence uses the first slot.
load_to_bigquery_start ==
    /\ \E df \in DataFrames : LoadStart(1, DEALS_TABLE, df)
    /\ UNCHANGED not_load_vars

load_to_bigquery_ensure ==
    /\ \E r \in Runs, lookup \in {"ok", "fail"}, dsLookup \in {"ok", "fail"},
          dsOk \in BOOLEAN, createOk \in BOOLEAN :
           ensure_table_exists(r, lookup, dsLookup, dsOk, createOk)
    /\ UNCHANGED not_load_vars

load_to_bigquery_delete ==
    /\ \E r \in Runs, ok \in BOOLEAN : LoadDelete(r, ok)
    /\ UNCHANGED not_load_vars

load_to_bigquery_append ==
    /\ \E r \in Runs, ok \in BOOLEAN : LoadAppend(r, ok)
    /\ UNCHANGED not_load_vars

load_to_bigquery_return ==
    /\ \E r \in Runs : LoadReturn(r)
    /\ UNCHANGED not_load_vars

load_to_bigquery_crash ==
    /\ \E r \in Runs : LoadCrash(r)
    /\ UNCHANGED not_load_vars

\* load_to_bigquery called by runs that overlap (a re-triggered run started
\* while the first one is still loading): each run has its own slot and
\* loads once.
load_to_bigquery_start_overlapping ==
    /\ \E r \in Runs, df \in DataFrames :
          /\ ld_pc[r] = "idle"
          /\ LoadStart(r, DEALS_TABLE, df)
    /\ UNCHANGED not_load_vars

NextOverlap ==
    \/ load_to_bigquery_start_overlapping
    \/ load_to_bigquery_ensure
    \/ load_to_bigquery_delete
    \/ load_to_bigquery_append
    \/ load_to_bigquery_return

\* DataFrames of at most one row, as transform_deals and transform_meetings
\* produce them for one deal or one meeting: the empty one and, for each
\* date, the DataFrame of one row.
OneDealFrames == {<<>>} \cup {<<Row(1, d, 1)>> : d \in Dates}

OneMeetingFrames ==
    {<<>>} \cup {<<[meeting_id |-> 1, snapshot_date |-> d,
                    snapshot_timestamp |-> 1]>> : d \in Dates}

\* load_to_bigquery and load_meetings_to_bigquery called by one run after
\* another.
load_deals_to_bigquery_start ==
    /\ \E df \in OneDealFrames : LoadStart(1, DEALS_TABLE, df)
    /\ UNCHANGED not_load_vars

load_meetings_to_bigquery_start ==
    /\ \E df \in OneMeetingFrames : LoadStart(1, MEETINGS_TABLE, df)
    /\ UNCHANGED not_load_vars

load_meetings_to_bigquery_ensure ==
    /\ \E r \in Runs, lookup \in {"ok", "fail"}, createOk \in BOOLEAN :
           MeetingsEnsureTable(r, lookup, createOk)
    /\ UNCHANGED not_load_vars

\* The two loaders, called in any order by runs that follow one another and
\* may die after any step.
NextLoaders ==
    \/ load_deals_to_bigquery_start
    \/ load_meetings_to_bigquery_start
    \/ load_to_bigquery_ensure
    \/ load_meetings_to_bigquery_ensure
    \/ load_to_bigquery_delete
    \/ load_to_bigquery_append
    \/ load_to_bigquery_return
    \/ load_to_bigquery_crash

----------------------------------------------------------------------------
(* fetch_all_deals *)

\* A raw deal: its id and its 'pipeline' property (NoneValue when missing).
Deal(i, p) == [id |-> i, pipeline |-> p]

\* The page layouts of a source holding the deals ds (a sequence) served
\* sz deals per page: at least one page, every page but the last one full.
NumPages(n, sz) == IF n = 0 THEN 1 ELSE (n + sz - 1) \div sz

PagesOf(ds, sz) ==
    [k \in 1..NumPages(Len(ds), sz) |->
        SubSeq(ds, (k - 1) * sz + 1, Min(k * sz, Len(ds)))]

Sources ==
    {PagesOf([i \in 1..n |-> Deal(i, pl[i])], sz) :
        <<n, pl, sz>> \in
            {t \in (0..MaxRecords) \X [1..MaxRecords -> PipelineIds \cup {NoneValue}]
                    \X (1..MaxPageSize) :
                \A i \in 1..MaxRecords : i > t[1] => t[2][i] = NoneValue}}

RECURSIVE Flatten(_)
Flatten(pages) == IF pages = <<>> THEN <<>>
                  ELSE Head(pages) \o Flatten(Tail(pages))

\* crm.deals.basic_api.get_page(after=cursor): the page and the next cursor
\* (0 when the response has no paging.next).
GetPage(src, cursor) ==
    [results |-> src[cursor + 1],
     next    |-> IF cursor + 1 < Len(src) THEN cursor + 1 ELSE 0]

\* deals = [d for d in deals if d.properties.get('pipeline') == target]
\* applied only when target_pipeline_id is truthy.
FilterByPipelineNoFilter(results, target) == results

FilterByPipeline(results, target) ==
    IF target # NoneValue
    THEN SelectSeq(results, LAMBDA d : d.pipeline = target)
    ELSE results

\* all_deals.extend(deals)
ExtendReplacing(acc, page) == page

Extend(acc, page) == acc \o page

\* max_retries = 5
max_retries == 5

\* wait_time = min(60, 10 * (2 ** retry_count))
RateLimitWait(rc) == Min(60, 10 * (2 ^ rc))

\* One successful get_page attempt, up to the next get_page call or the
\* return: filter, accumulate, follow the cursor (and, on re-entering the
\* outer loop, page_count += 1 and retry_count = 0).
FetchPageOk ==
    /\ fd_pc = "running"
    /\ LET response == GetPage(fd_source, after)
           filtered == FilterByPipeline(response.results, target_pipeline_id)
       IN  /\ all_deals' = Extend(all_deals, filtered)
           /\ IF response.next # 0
              THEN /\ after' = response.next
                   /\ page_count' = page_count + 1
                   /\ retry_count' = 0
                   /\ fd_pc' = "running"
              ELSE /\ fd_pc' = "returned"
                   /\ UNCHANGED <<after, page_count, retry_count>>
    /\ fd_wait' = 0
    /\ fd_fails' = 0
    /\ fd_status' = 200
    /\ UNCHANGED <<fd_source, target_pipeline_id, fd_failTotal>>

\* One get_page attempt answered by a DealsApiException of the given status.
FetchApiException(status) ==
    /\ fd_pc = "running"
    /\ fd_failTotal < MaxFailures
    /\ fd_failTotal' = fd_failTotal + 1
    /\ fd_fails' = fd_fails + 1
    /\ fd_status' = status
    /\ LET rc == retry_count + 1
       IN  IF status = 429
           THEN /\ fd_wait' = RateLimitWait(rc)
                /\ fd_pc' = "running"
                /\ IF rc < max_retries
                   THEN /\ retry_count' = rc
                        /\ UNCHANGED page_count
                   ELSE \* the inner loop ends, the outer loop starts over
                        /\ retry_count' = 0
                        /\ page_count' = page_count + 1
           ELSE IF rc >= max_retries
           THEN /\ fd_pc' = "raised"
                /\ retry_count' = rc
                /\ fd_wait' = 0
                /\ UNCHANGED page_count
           ELSE /\ fd_pc' = "running"
                /\ retry_count' = rc
                /\ fd_wait' = 5
                /\ UNCHANGED page_count
    /\ UNCHANGED <<fd_source, target_pipeline_id, after, all_deals>>

\* One get_page attempt failing with any other exception.
FetchException ==
    /\ fd_pc = "running"
    /\ fd_failTotal < MaxFailures
    /\ fd_failTotal' = fd_failTotal + 1
    /\ fd_fails' = fd_fails + 1
    /\ fd_status' = -1
    /\ retry_count' = retry_count + 1
    /\ IF retry_count + 1 >= max_retries
       THEN fd_pc' = "raised" /\ fd_wait' = 0
       ELSE fd_pc' = "running" /\ fd_wait' = 5
    /\ UNCHANGED <<fd_source, target_pipeline_id, after, page_count, all_deals>>

fetch_all_deals_page_ok == FetchPageOk /\ UNCHANGED not_fetch_vars

fetch_all_deals_rate_limited ==
    FetchApiException(429) /\ UNCHANGED not_fetch_vars

fetch_all_deals_api_error ==
    /\ \E status \in ApiStatuses \ {429} : FetchApiException(status)
    /\ UNCHANGED not_fetch_vars

fetch_all_deals_exception == FetchException /\ UNCHANGED not_fetch_vars

\* Entry of fetch_all_deals, up to the first get_page call.
FetchStart(src, target) ==
    /\ fd_pc = "running"
    /\ fd_source = src
    /\ target_pipeline_id = target
    /\ after = 0
    /\ page_count = 1
    /\ retry_count = 0
    /\ all_deals = <<>>
    /\ fd_wait = 0
    /\ fd_fails = 0
    /\ fd_failTotal = 0
    /\ fd_status = 0

FetchOff ==
    /\ fd_pc = "off"
    /\ fd_source = <<>>
    /\ target_pipeline_id = NoneValue
    /\ after = 0
    /\ page_count = 0
    /\ retry_count = 0
    /\ all_deals = <<>>
    /\ fd_wait = 0
    /\ fd_fails = 0
    /\ fd_failTotal = 0
    /\ fd_status = 0

NextFetch ==
    \/ fetch_all_deals_page_ok
    \/ fetch_all_deals_rate_limited
    \/ fetch_all_deals_api_error
    \/ fetch_all_deals_exception

----------------------------------------------------------------------------
(* fetch_associated_contacts *)

\* max_retries = 3 (default argument)
contact_max_retries == 3

\* limit=10 of the association listing, [:10] of the HTTP fallback
ASSOCIATION_LIMIT == 10

\* Outcomes of contacts.basic_api.get_by_id, by the except clause that
\* receives them:
\*   "api_403"   ContactsApiException, status 403
\*   "api_other" ContactsApiException, any other status
\*   "network"   ConnectionError, TimeoutError, OSError
\*   "conn_msg"  another Exception whose text has 'SSL', 'EOF' or 'connection'
\*   "unknown"   any other Exception
HydrationFailures == {"api_403", "api_other", "network", "conn_msg", "unknown"}
TransientKinds == {"network", "conn_msg"}

\* Outcomes of the association listing, by the except clause that receives
\* them ("perm_msg": an Exception whose text has '403' or 'Forbidden').
ListingFailures == {"network", "perm_msg", "conn_msg", "unknown"}

\* Outcomes of the HTTP fallback taken when the SDK has no v4 associations
\* API (AttributeError): the status code of the response.
FallbackStatuses == {200, 403, 500}

\* The ids of a listing of n contacts.
ListedIds(n) == [k \in 1..n |-> k]

\* data.get('results', [])[:10]
Truncate(ids) == SubSeq(ids, 1, Min(ASSOCIATION_LIMIT, Len(ids)))

\* What the except clauses of the hydration loop do with a failure on
\* attempt number ca (0-based): "retry" (sleep, next attempt), "giveup"
\* (attempts exhausted, next id), "break" (next id at once).
HydrationHandlerRetry403(kind, ca) ==
    IF kind \in TransientKinds \cup {"api_403"}
    THEN IF ca < contact_max_retries - 1 THEN "retry" ELSE "giveup"
    ELSE "break"

HydrationHandlerAbort(kind, ca) ==
    IF kind \in TransientKinds
    THEN IF ca < contact_max_retries - 1 THEN "retry" ELSE "giveup"
    ELSE IF kind = "unknown" THEN "abort" ELSE "break"

HydrationHandler(kind, ca) ==
    IF kind \in TransientKinds
    THEN IF ca < contact_max_retries - 1 THEN "retry" ELSE "giveup"
    ELSE "break"

\* What the except clauses of the listing loop do with a failure on attempt
\* number a (0-based): "retry", "giveup" (attempts exhausted) or "return".
ListingHandlerRetryAll(kind, a) ==
    IF a < contact_max_retries - 1 THEN "retry" ELSE "giveup"

ListingHandlerRaise(kind, a) ==
    IF kind \in {"network", "conn_msg"}
    THEN IF a < contact_max_retries - 1 THEN "retry" ELSE "giveup"
    ELSE IF kind = "unknown" THEN "raise" ELSE "return"

ListingHandler(kind, a) ==
    IF kind \in {"network", "conn_msg"}
    THEN IF a < contact_max_retries - 1 THEN "retry" ELSE "giveup"
    ELSE "return"

\* wait_time = 2 ** attempt
BackoffWait(a) == 2 ^ a

\* The entry of the result list built from a hydrated contact.
Contact(cid) == [id |-> cid]

\* The listing call returns ids (SDK results, or the HTTP fallback's status
\* 200): an empty list returns [] at once, else hydration starts.
ContactsListed(ids, how) ==
    /\ contact_ids' = ids
    /\ fc_listHist' = Append(fc_listHist, how)
    /\ fc_wait' = 0
    /\ fc_hist' = [k \in 1..Len(ids) |-> <<>>]
    /\ IF ids = <<>>
       THEN fc_pc' = "returned" /\ fc_idx' = 0
       ELSE fc_pc' = "hydrating" /\ fc_idx' = 1
    /\ UNCHANGED <<attempt, contact_attempt, contacts, fc_failTotal>>

\* associations.v4.basic_api.get_page(limit=10) succeeds: the server
\* returns at most the limit.
ContactsListingOk ==
    /\ fc_pc = "listing"
    /\ \E n \in 0..MaxListed : ContactsListed(ListedIds(n), "ok")

\* AttributeError, then requests.get of the fallback URL answers.
ContactsListingFallback ==
    /\ fc_pc = "listing"
    /\ \E status \in FallbackStatuses :
         IF status = 200
         THEN \E n \in (0..MaxListed) \cup {ASSOCIATION_LIMIT + 1} :
                 ContactsListed(Truncate(ListedIds(n)), "fallback_200")
         ELSE \* logged; contact_ids stays empty: return []
              /\ fc_pc' = "returned"
              /\ fc_listHist' = Append(fc_listHist, "fallback_error")
              /\ fc_wait' = 0
              /\ UNCHANGED <<attempt, contact_ids, fc_idx, contact_attempt,
                             contacts, fc_hist, fc_failTotal>>

\* The listing call (or the fallback request) raises.
ContactsListingFails ==
    /\ fc_pc = "listing"
    /\ fc_failTotal < MaxContactFailures
    /\ \E kind \in ListingFailures :
         LET h == ListingHandler(kind, attempt)
         IN  /\ fc_listHist' = Append(fc_listHist, kind)
             /\ fc_failTotal' = fc_failTotal + 1
             /\ CASE h = "retry"  -> /\ fc_wait' = BackoffWait(attempt)
                                     /\ attempt' = attempt + 1
                                     /\ fc_pc' = "listing"
                  [] h = "giveup" -> \* the for loop ends: return contacts
                                     /\ fc_wait' = 0
                                     /\ fc_pc' = "returned"
                                     /\ UNCHANGED attempt
                  [] h = "return" -> /\ fc_wait' = 0
                                     /\ fc_pc' = "returned"
                                     /\ UNCHANGED attempt
                  [] OTHER        -> /\ fc_wait' = 0
                                     /\ fc_pc' = "raised"
                                     /\ UNCHANGED attempt
    /\ UNCHANGED <<contact_ids, fc_idx, contact_attempt, contacts, fc_hist>>

\* Moving to the next contact id, or returning after the last one.
NextContactOrReturn ==
    /\ contact_attempt' = 0
    /\ IF fc_idx < Len(contact_ids)
       THEN fc_idx' = fc_idx + 1 /\ fc_pc' = "hydrating"
       ELSE fc_idx' = fc_idx /\ fc_pc' = "returned"

\* get_by_id succeeds: the contact is appended and the retry loop left.
ContactsHydrationOk ==
    /\ fc_pc = "hydrating"
    /\ contacts' = Append(contacts, Contact(contact_ids[fc_idx]))
    /\ fc_hist' = [fc_hist EXCEPT ![fc_idx] = Append(@, "ok")]
    /\ fc_wait' = 0
    /\ NextContactOrReturn
    /\ UNCHANGED <<attempt, contact_ids, fc_listHist, fc_failTotal>>

\* get_by_id raises.  (Failures are injected for listings of at most
\* MaxListed ids.)
ContactsHydrationFails ==
    /\ fc_pc = "hydrating"
    /\ fc_failTotal < MaxContactFailures
    /\ Len(contact_ids) <= MaxListed
    /\ \E kind \in HydrationFailures :
         LET h == HydrationHandler(kind, contact_attempt)
         IN  /\ fc_hist' = [fc_hist EXCEPT ![fc_idx] = Append(@, kind)]
             /\ fc_failTotal' = fc_failTotal + 1
             /\ CASE h = "retry" -> /\ fc_wait' = BackoffWait(contact_attempt)
                                    /\ contact_attempt' = contact_attempt + 1
                                    /\ UNCHANGED <<fc_idx, fc_pc>>
                  [] h \in {"giveup", "break"} ->
                                    /\ fc_wait' = 0
                                    /\ NextContactOrReturn
                  [] OTHER       -> \* the batch is abandoned
                                    /\ fc_wait' = 0
                                    /\ fc_pc' = "returned"
                                    /\ UNCHANGED <<fc_idx, contact_attempt>>
    /\ UNCHANGED <<attempt, contact_ids, contacts, fc_listHist>>

fetch_associated_contacts_listing_ok ==
    ContactsListingOk /\ UNCHANGED not_contact_vars

fetch_associated_contacts_listing_fallback ==
    ContactsListingFallback /\ UNCHANGED not_contact_vars

fetch_associated_contacts_listing_fails ==
    ContactsListingFails /\ UNCHANGED not_contact_vars

fetch_associated_contacts_hydration_ok ==
    ContactsHydrationOk /\ UNCHANGED not_contact_vars

fetch_associated_contacts_hydration_fails ==
    ContactsHydrationFails /\ UNCHANGED not_contact_vars

\* Entry of fetch_associated_contacts, up to the first listing call.
ContactsStart ==
    /\ fc_pc = "listing"
    /\ attempt = 0
    /\ contact_ids = <<>>
    /\ fc_idx = 0
    /\ contact_attempt = 0
    /\ contacts = <<>>
    /\ fc_wait = 0
    /\ fc_listHist = <<>>
    /\ fc_hist = <<>>
    /\ fc_failTotal = 0

ContactsOff ==
    /\ fc_pc = "off"
    /\ attempt = 0
    /\ contact_ids = <<>>
    /\ fc_idx = 0
    /\ contact_attempt = 0
    /\ contacts = <<>>
    /\ fc_wait = 0
    /\ fc_listHist = <<>>
    /\ fc_hist = <<>>
    /\ fc_failTotal = 0

NextContacts ==
    \/ fetch_associated_contacts_listing_ok
    \/ fetch_associated_contacts_listing_fallback
    \/ fetch_associated_contacts_listing_fails
    \/ fetch_associated_contacts_hydration_ok
    \/ fetch_associated_contacts_hydration_fails

InitLoad ==
    /\ dataset_exists \in BOOLEAN
    /\ tables = [t \in TableNames |-> [exists |-> FALSE, rows |-> EmptyBag]]
    /\ ld_pc = [r \in Runs |-> "idle"]
    /\ ld_table = [r \in Runs |-> DEALS_TABLE]
    /\ ld_df = [r \in Runs |-> <<>>]
    /\ ld_ret = [r \in Runs |-> -1]
    /\ ld_prev = [r \in Runs |-> "idle"]
    /\ wh_lastCompleted = [t \in TableNames |-> [d \in Dates |-> <<>>]]
    /\ ld_repeat = FALSE

LoadOff == InitLoad /\ dataset_exists = FALSE

NextLoad ==
    \/ load_to_bigquery_start
    \/ load_to_bigquery_ensure
    \/ load_to_bigquery_delete
    \/ load_to_bigquery_append
    \/ load_to_bigquery_return
    \/ load_to_bigquery_crash

----------------------------------------------------------------------------
(* transform_deals: the derived fields of one deal *)

\* Strings whose characters matter are sequences of one-character strings.
Lowered == [c \in {"W", "O", "N", "L", "S", "T", "D", "C"} |->
              CASE c = "W" -> "w" [] c = "O" -> "o" [] c = "N" -> "n"
                [] c = "L" -> "l" [] c = "S" -> "s" [] c = "T" -> "t"
                [] c = "D" -> "d" [] c = "C" -> "c"]

\* str.lower()
Lower(str) == [k \in 1..Len(str) |->
                 IF str[k] \in DOMAIN Lowered THEN Lowered[str[k]] ELSE str[k]]

\* sub in str
Contains(str, sub) ==
    \E k \in 0..(Len(str) - Len(sub)) : SubSeq(str, k + 1, k + Len(sub)) = sub

\* The words stage labels are made of.
Words == { <<"W", "o", "n">>, <<"L", "O", "S", "T">>, <<"l", "o", "s", "t">>,
           <<" ">>, <<"D", "e", "m", "o">>, <<"w", "o">>, <<"n">> }

RECURSIVE Concat(_)
Concat(ws) == IF ws = <<>> THEN <<>> ELSE Head(ws) \o Concat(Tail(ws))

Labels == {Concat(ws) : ws \in UNION {[1..n -> Words] : n \in 0..MaxWords}}

STR_won == <<"w", "o", "n">>
STR_closed_won == <<"c", "l", "o", "s", "e", "d", " ", "w", "o", "n">>
STR_lost == <<"l", "o", "s", "t">>
STR_closed_lost == <<"c", "l", "o", "s", "e", "d", " ", "l", "o", "s", "t">>

\* The reference maps fetch_pipelines builds from a source with one pipeline
\* "p1" holding one stage "s1" of the given label.
PipelinesDictOf(label) ==
    [p \in {"p1"} |-> [label |-> <<"D", "e", "m", "o">>,
                       stages |-> [st \in {"s1"} |-> label]]]

StagesDictOf(label) == [st \in {"s1"} |-> [label |-> label]]

\* The empty dict
EmptyDict == [x \in {} |-> <<>>]

\* props.get(key) or ''
OrEmpty(v) == IF v = NoneValue THEN "" ELSE v

\* The stage label lookup of transform_deals: through the deal's pipeline
\* first, through the flat stage map next.
ResolveStageLabel(props, pdict, sdict) ==
    LET pipeline_id == OrEmpty(props.pipeline)
        dealstage_id == OrEmpty(props.dealstage)
        viaPipeline ==
            IF /\ pipeline_id # ""
               /\ pipeline_id \in DOMAIN pdict
               /\ dealstage_id \in DOMAIN pdict[pipeline_id].stages
            THEN pdict[pipeline_id].stages[dealstage_id]
            ELSE <<>>
    IN  IF viaPipeline = <<>> /\ dealstage_id \in DOMAIN sdict
        THEN sdict[dealstage_id].label
        ELSE viaPipeline

\* is_won, is_lost and is_open of transform_deals.
DealStatus(dealstage_label) ==
    LET stage_lower == IF dealstage_label # <<>> THEN Lower(dealstage_label)
                       ELSE <<>>
        is_won == Contains(stage_lower, STR_won)
                  \/ Contains(stage_lower, STR_closed_won)
        is_lost == Contains(stage_lower, STR_lost)
                   \/ Contains(stage_lower, STR_closed_lost)
    IN  [is_won |-> is_won, is_lost |-> is_lost,
         is_open |-> ~is_won /\ ~is_lost]

\* The body of the loop of transform_deals for one deal.
TransformDeal(props, pdict, sdict) ==
    LET dealstage_label == ResolveStageLabel(props, pdict, sdict)
        status == DealStatus(dealstage_label)
    IN  [hs_object_id    |-> props.hs_object_id,
         dealstage_label |-> dealstage_label,
         is_open         |-> status.is_open,
         is_won          |-> status.is_won,
         is_lost         |-> status.is_lost]

transform_deals_row ==
    /\ tr_pc = "ready"
    /\ tr_row' = TransformDeal(tr_props, pipelines_dict, stages_dict)
    /\ tr_pc' = "done"
    /\ UNCHANGED <<pipelines_dict, stages_dict, tr_props>>
    /\ UNCHANGED not_transform_vars

TransformStart ==
    /\ tr_pc = "ready"
    /\ \E label \in Labels, loaded \in BOOLEAN :
          /\ pipelines_dict = IF loaded THEN PipelinesDictOf(label) ELSE EmptyDict
          /\ stages_dict = IF loaded THEN StagesDictOf(label) ELSE EmptyDict
    /\ tr_props \in [hs_object_id : {1},
                     pipeline : {"p1", "p2", NoneValue},
                     dealstage : {"s1", "s2", NoneValue}]
    /\ tr_row = NoneValue

TransformOff ==
    /\ tr_pc = "off"
    /\ pipelines_dict = EmptyDict
    /\ stages_dict = EmptyDict
    /\ tr_props = NoneValue
    /\ tr_row = NoneValue

NextTransform == transform_deals_row

\* No function call is being modelled.
CallOff ==
    /\ call_pc = "off"
    /\ call_args = NoneValue
    /\ call_ret = NoneValue

----------------------------------------------------------------------------
(* safe_float and the weighted amount of transform_deals *)

\* A raw property value is a string (a sequence of one-character strings)
\* or Python's None, written as the one-token sequence <<NoneValue>>.
NoneProp == <<NoneValue>>

Digits == [c \in {"0", "5"} |-> IF c = "0" THEN 0 ELSE 5]

NumberChars == DOMAIN Digits \cup {".", "-", "x"}

StringsUpTo(n) == UNION {[1..k -> NumberChars] : k \in 0..n}

RawValues(n) == {NoneProp} \cup StringsUpTo(n)

\* An optional number (Optional[float], Optional[int]) is None or a number:
\* the empty sequence or the one-element sequence of the number.
Null == <<>>

Some(n) == <<n>>

\* A float is modelled by the decimal number it holds: the record of an
\* integer m and a number of decimals f stands for m * 10^-f, with no
\* trailing zero among the decimals (the numbers the raw values of the
\* model denote, and their products, are held exactly).
RECURSIVE Decimal(_, _)
Decimal(m, f) == IF f > 0 /\ m % 10 = 0 THEN Decimal(m \div 10, f - 1)
                 ELSE [m |-> m, f |-> f]

\* a * b
FloatMul(a, b) == Decimal(a.m * b.m, a.f + b.f)

\* float(str), scanning str from the left: an optional sign, digits, an
\* optional point, digits; ValueError (Null here) on any other
\* character, on a second point and when there is no digit at all.
\*   k: position, sign: 1 or -1, m: the digits read so far as an integer,
\*   f: digits read after the point (-1 before the point), n: digits read
RECURSIVE ScanFloat(_, _, _, _, _, _)
ScanFloat(str, k, sign, m, f, n) ==
    IF k > Len(str)
    THEN IF n = 0 THEN Null
         ELSE Some(Decimal(sign * m, IF f < 0 THEN 0 ELSE f))
    ELSE IF str[k] \in DOMAIN Digits
    THEN ScanFloat(str, k + 1, sign, 10 * m + Digits[str[k]],
                   IF f < 0 THEN f ELSE f + 1, n + 1)
    ELSE IF str[k] = "." /\ f < 0
    THEN ScanFloat(str, k + 1, sign, m, 0, n)
    ELSE Null

ParseFloat(str) ==
    IF str # <<>> /\ str[1] = "-"
    THEN ScanFloat(str, 2, -1, 0, -1, 0)
    ELSE ScanFloat(str, 1, 1, 0, -1, 0)

\* safe_float(value)
safe_float(value) ==
    IF value = NoneProp \/ value = <<>> THEN Null ELSE ParseFloat(value)

\* weighted_amount of transform_deals
WeightedAmountIfTruthy(amount, probability) ==
    IF amount # Null /\ probability # Null
       /\ amount[1].m # 0 /\ probability[1].m # 0
    THEN Some(FloatMul(amount[1], probability[1]))
    ELSE Null

WeightedAmount(amount, probability) ==
    IF amount # Null /\ probability # Null
    THEN Some(FloatMul(amount[1], probability[1]))
    ELSE Null

\* The 'Financial' and 'weighted_amount' lines of the loop of
\* transform_deals for one deal.
transform_deals_weighted_amount ==
    /\ call_pc = "ready"
    /\ LET amount == safe_float(call_args.amount)
           probability == safe_float(call_args.hs_deal_stage_probability)
       IN  call_ret' = [amount |-> amount,
                        hs_deal_stage_probability |-> probability,
                        weighted_amount |-> WeightedAmount(amount, probability)]
    /\ call_pc' = "done"
    /\ UNCHANGED call_args
    /\ UNCHANGED not_call_vars

WeightedStart ==
    /\ call_pc = "ready"
    /\ call_args \in [amount : RawValues(MaxAmountChars),
                      hs_deal_stage_probability : RawValues(MaxProbabilityChars)]
    /\ call_ret = NoneValue

NextWeighted == transform_deals_weighted_amount

----------------------------------------------------------------------------
(* convert_hubspot_timestamp and parse_timestamp_to_datetime *)

DigitChars == <<"0", "1", "2", "3", "4", "5", "6", "7", "8", "9">>

IsDigit(c) == \E d \in 1..10 : DigitChars[d] = c

DigitValue(c) == (CHOOSE d \in 1..10 : DigitChars[d] = c) - 1

\* str.isdigit()
IsDigitString(str) == str # <<>> /\ \A k \in 1..Len(str) : IsDigit(str[k])

\* int(str) of a string of digits
RECURSIVE ToInt(_)
ToInt(str) == IF str = <<>> THEN 0
              ELSE 10 * ToInt(SubSeq(str, 1, Len(str) - 1))
                   + DigitValue(str[Len(str)])

\* n written with w digits, zero-padded (the '%04d', '%02d' of isoformat)
ToDigits(n, w) == [k \in 1..w |-> DigitChars[((n \div (10 ^ (w - k))) % 10) + 1]]

\* str(n) of a natural number
RECURSIVE NumDigits(_)
NumDigits(n) == IF n < 10 THEN 1 ELSE 1 + NumDigits(n \div 10)

DecimalString(n) == ToDigits(n, NumDigits(n))

\* A datetime in UTC: its calendar fields.
DateTime(y, mo, d, h, mi, sec, us) ==
    [year |-> y, month |-> mo, day |-> d, hour |-> h, minute |-> mi,
     second |-> sec, microsecond |-> us]

IsLeap(y) == (y % 4 = 0 /\ y % 100 # 0) \/ y % 400 = 0

DaysInMonth(y, mo) ==
    IF mo = 2 THEN (IF IsLeap(y) THEN 29 ELSE 28)
    ELSE IF mo \in {4, 6, 9, 11} THEN 30 ELSE 31

\* The calendar date that lies the given number of days after the first
\* day of month mo of year y.
RECURSIVE DateAfter(_, _, _)
DateAfter(days, y, mo) ==
    IF days < DaysInMonth(y, mo) THEN [year |-> y, month |-> mo, day |-> days + 1]
    ELSE DateAfter(days - DaysInMonth(y, mo),
                   IF mo = 12 THEN y + 1 ELSE y, IF mo = 12 THEN 1 ELSE mo + 1)

\* datetime.fromtimestamp(timestamp_ms / 1000, tz=timezone.utc)
FromTimestampMsAsSeconds(ms) ==
    LET date == DateAfter(ms \div 86400, 1970, 1)
        rest == ms % 86400
    IN  DateTime(date.year, date.month, date.day, rest \div 3600,
                 (rest \div 60) % 60, rest % 60, 0)

FromTimestampMs(ms) ==
    LET date == DateAfter(ms \div 86400000, 1970, 1)
        rest == ms % 86400000
    IN  DateTime(date.year, date.month, date.day, rest \div 3600000,
                 (rest \div 60000) % 60, (rest \div 1000) % 60,
                 (rest % 1000) * 1000)

\* The formats tried by convert_hubspot_timestamp, in their order; a format
\* is a sequence of directives and literal characters.
DateFormat == <<"%Y", "-", "%m", "-", "%d">>

SecondsFormat == DateFormat \o <<"T", "%H", ":", "%M", ":", "%S">>

TimestampFormats ==
    << SecondsFormat \o <<".", "%f", "Z">>,
       SecondsFormat \o <<"Z">>,
       SecondsFormat \o <<".", "%f">>,
       SecondsFormat,
       DateFormat >>

Directives == {"%Y", "%m", "%d", "%H", "%M", "%S", "%f"}

\* The number of digits a directive takes: exactly 4 for %Y, 1 to 6 for %f,
\* 1 to 2 for the others.
MaxWidth(dir) == IF dir = "%Y" THEN 4 ELSE IF dir = "%f" THEN 6 ELSE 2

MinWidth(dir) == IF dir = "%Y" THEN 4 ELSE 1

\* The length of the run of digits of str that starts at position k, at
\* most w.
RECURSIVE DigitRun(_, _, _)
DigitRun(str, k, w) ==
    IF w = 0 \/ k > Len(str) \/ ~IsDigit(str[k]) THEN 0
    ELSE 1 + DigitRun(str, k + 1, w - 1)

\* The fields read by matching str from position k against the directives
\* of fmt from position j; <<>> when str does not match the format or is
\* not consumed entirely ("unconverted data remains").
RECURSIVE MatchFormat(_, _, _, _, _)
MatchFormat(str, k, fmt, j, fields) ==
    IF j > Len(fmt)
    THEN IF k > Len(str) THEN <<fields>> ELSE <<>>
    ELSE IF fmt[j] \in Directives
    THEN LET n == DigitRun(str, k, MaxWidth(fmt[j]))
             text == SubSeq(str, k, k + n - 1)
             value == IF fmt[j] = "%f"
                      THEN ToInt(text) * 10 ^ (6 - n)
                      ELSE ToInt(text)
         IN  IF n < MinWidth(fmt[j]) THEN <<>>
             ELSE MatchFormat(str, k + n, fmt, j + 1,
                              [fields EXCEPT ![fmt[j]] = value])
    ELSE IF k <= Len(str) /\ str[k] = fmt[j]
    THEN MatchFormat(str, k + 1, fmt, j + 1, fields)
    ELSE <<>>

\* datetime.strptime(str, fmt): the datetime read, <<>> on ValueError (no
\* match, or fields that are no date or no time of day).
Strptime(str, fmt) ==
    LET start == [dir \in Directives |->
                    IF dir \in {"%m", "%d"} THEN 1
                    ELSE IF dir = "%Y" THEN 1900 ELSE 0]
        m == MatchFormat(str, 1, fmt, 1, start)
    IN  IF m = <<>> THEN Null
        ELSE LET f == m[1]
             IN  IF /\ f["%Y"] >= 1
                    /\ f["%m"] \in 1..12
                    /\ f["%d"] \in 1..DaysInMonth(f["%Y"], f["%m"])
                    /\ f["%H"] <= 23 /\ f["%M"] <= 59 /\ f["%S"] <= 59
                 THEN Some(DateTime(f["%Y"], f["%m"], f["%d"], f["%H"],
                                    f["%M"], f["%S"], f["%f"]))
                 ELSE Null

\* str.replace(old, new)
RECURSIVE Replace(_, _, _)
Replace(str, old, new) ==
    IF Len(str) < Len(old) THEN str
    ELSE IF SubSeq(str, 1, Len(old)) = old
    THEN new \o Replace(SubSeq(str, Len(old) + 1, Len(str)), old, new)
    ELSE <<Head(str)>> \o Replace(Tail(str), old, new)

UtcOffset == <<"+", "0", "0", ":", "0", "0">>

\* dt.isoformat() of a datetime with tzinfo=timezone.utc
IsoFormat(dt) ==
    ToDigits(dt.year, 4) \o <<"-">> \o ToDigits(dt.month, 2) \o <<"-">>
       \o ToDigits(dt.day, 2) \o <<"T">> \o ToDigits(dt.hour, 2) \o <<":">>
       \o ToDigits(dt.minute, 2) \o <<":">> \o ToDigits(dt.second, 2)
       \o (IF dt.microsecond # 0
           THEN <<".">> \o ToDigits(dt.microsecond, 6) ELSE <<>>)
       \o UtcOffset

\* The loop over the formats: the first format that parses decides.
RECURSIVE TryFormats(_, _)
TryFormats(str, n) ==
    IF n > Len(TimestampFormats) THEN Null
    ELSE LET ts == Replace(Replace(str, UtcOffset, <<"Z">>), <<"Z">>, <<>>)
             fmt == Replace(TimestampFormats[n], <<"Z">>, <<>>)
             dt == Strptime(ts, fmt)
         IN  IF dt # Null THEN Some(IsoFormat(dt[1]))
             ELSE TryFormats(str, n + 1)

\* convert_hubspot_timestamp(timestamp_str): Some(ISO-8601 string) or Null
convert_hubspot_timestamp(timestamp_str) ==
    IF timestamp_str = NoneProp \/ timestamp_str = <<>> THEN Null
    ELSE IF IsDigitString(timestamp_str)
    THEN Some(IsoFormat(FromTimestampMs(ToInt(timestamp_str))))
    ELSE IF \E k \in 1..Len(timestamp_str) : timestamp_str[k] \in {"T", "-"}
    THEN TryFormats(timestamp_str, 1)
    ELSE Null

\* datetime.fromisoformat(str), for the strings isoformat() writes
fromisoformat(str) ==
    LET withFraction == Strptime(str, SecondsFormat \o <<".", "%f">> \o UtcOffset)
    IN  IF withFraction # Null THEN withFraction
        ELSE Strptime(str, SecondsFormat \o UtcOffset)

\* parse_timestamp_to_datetime(timestamp_str): Some(datetime) or Null
parse_timestamp_to_datetime(timestamp_str) ==
    IF timestamp_str = NoneProp \/ timestamp_str = <<>> THEN Null
    ELSE LET iso_str == convert_hubspot_timestamp(timestamp_str)
         IN  IF iso_str = Null THEN Null
             ELSE fromisoformat(Replace(iso_str[1], <<"Z">>, UtcOffset))

\* The instants the source timestamps denote: days of January 1970, at
\* millisecond precision.
Instants ==
    {DateTime(1970, 1, d, h, mi, sec, ms * 1000) :
        d \in 1..MaxDay, h \in {0, 23}, mi \in {0, 59}, sec \in {0, 7},
        ms \in {0, 5, 120}}

\* The shapes in which the source writes an instant.
Shapes == {"epoch_ms", "iso_fraction_z", "iso_z", "iso_fraction", "iso", "date"}

\* Milliseconds from the epoch to an instant of January 1970.
EpochMs(dt) ==
    (((dt.day - 1) * 24 + dt.hour) * 60 + dt.minute) * 60000
       + dt.second * 1000 + dt.microsecond \div 1000

\* The string the source writes for an instant in a shape.
WriteTimestamp(dt, shape) ==
    LET date == ToDigits(dt.year, 4) \o <<"-">> \o ToDigits(dt.month, 2)
                   \o <<"-">> \o ToDigits(dt.day, 2)
        seconds == date \o <<"T">> \o ToDigits(dt.hour, 2) \o <<":">>
                      \o ToDigits(dt.minute, 2) \o <<":">> \o ToDigits(dt.second, 2)
        fraction == <<".">> \o ToDigits(dt.microsecond \div 1000, 3)
    IN  CASE shape = "epoch_ms"       -> DecimalString(EpochMs(dt))
          [] shape = "iso_fraction_z" -> seconds \o fraction \o <<"Z">>
          [] shape = "iso_z"          -> seconds \o <<"Z">>
          [] shape = "iso_fraction"   -> seconds \o fraction
          [] shape = "iso"            -> seconds
          [] shape = "date"           -> date

\* Inputs of no supported shape.
UnsupportedTimestamps ==
    { <<"a", "b", "c">>, <<"1", "2", "a">>, <<"-">>, <<"T">>, <<"Z">>,
      <<"1", "9", "7", "0", "-", "1", "3", "-", "0", "1">>,
      <<"1", "9", "7", "0", "-", "0", "2", "-", "3", "0">>,
      <<"1", "9", "7", "0", "-", "0", "1", "-", "0", "1", "T", "2", "5", ":",
        "0", "0", ":", "0", "0">>,
      <<"1", "9", "7", "0", "-", "0", "1", "-", "0", "1", " ", "1", "0", ":",
        "0", "0", ":", "0", "0">>,
      <<"0", "1", "/", "0", "2", "/", "1", "9", "7", "0">> }

\* One call of convert_hubspot_timestamp.
convert_hubspot_timestamp_call ==
    /\ call_pc = "ready"
    /\ call_ret' = convert_hubspot_timestamp(call_args.timestamp_str)
    /\ call_pc' = "done"
    /\ UNCHANGED call_args
    /\ UNCHANGED not_call_vars

\* The argument is the string written for an instant in one of the shapes
\* (the instant and the shape are remembered), an empty value or a string
\* of no supported shape.
TimestampStart ==
    /\ call_pc = "ready"
    /\ \/ \E dt \in Instants, shape \in Shapes :
             call_args = [timestamp_str |-> WriteTimestamp(dt, shape),
                          shape |-> shape, instant |-> <<dt>>]
       \/ \E str \in UnsupportedTimestamps \cup {NoneProp, <<>>} :
             call_args = [timestamp_str |-> str, shape |-> "none",
                          instant |-> <<>>]
    /\ call_ret = NoneValue

NextTimestamp == convert_hubspot_timestamp_call

----------------------------------------------------------------------------
(* The days metrics of transform_deals *)

\* Days from 1970-01-01 to the first day of year y, and to the first day of
\* month mo of year y.
RECURSIVE DaysBeforeYear(_)
DaysBeforeYear(y) ==
    IF y <= 1970 THEN 0
    ELSE DaysBeforeYear(y - 1) + (IF IsLeap(y - 1) THEN 366 ELSE 365)

RECURSIVE DaysBeforeMonth(_, _)
DaysBeforeMonth(y, mo) ==
    IF mo = 1 THEN DaysBeforeYear(y)
    ELSE DaysBeforeMonth(y, mo - 1) + DaysInMonth(y, mo - 1)

\* (a - b).days of two datetimes: the whole days of the difference, rounded
\* down (a timedelta has 0 <= seconds < 86400).
TimedeltaDays(a, b) ==
    LET Ordinal(dt) == DaysBeforeMonth(dt.year, dt.month) + dt.day - 1
        Seconds(dt) == (dt.hour * 60 + dt.minute) * 60 + dt.second
        earlier == \/ Seconds(a) < Seconds(b)
                   \/ Seconds(a) = Seconds(b) /\ a.microsecond < b.microsecond
    IN  Ordinal(a) - Ordinal(b) - (IF earlier THEN 1 ELSE 0)

\* props.get('createdate') ... days_since_created
DaysSinceCreated(props, snapshot_timestamp) ==
    LET createdate_dt == parse_timestamp_to_datetime(props.createdate)
    IN  IF createdate_dt # Null
        THEN Some(TimedeltaDays(snapshot_timestamp, createdate_dt[1]))
        ELSE Null

\* props.get(f'hs_date_entered_{dealstage_id}')
StageEntered(props, dealstage_id) ==
    IF dealstage_id \in DOMAIN props.hs_date_entered
    THEN props.hs_date_entered[dealstage_id]
    ELSE NoneProp

\* days_in_current_stage: from the stage entry date, else days_since_created
DaysInCurrentStageNoFallback(props, snapshot_timestamp) ==
    LET dealstage_id == OrEmpty(props.dealstage)
        stage_entered_date ==
            IF dealstage_id # ""
            THEN parse_timestamp_to_datetime(StageEntered(props, dealstage_id))
            ELSE Null
    IN  IF stage_entered_date # Null
        THEN Some(TimedeltaDays(snapshot_timestamp, stage_entered_date[1]))
        ELSE Null

DaysInCurrentStage(props, snapshot_timestamp) ==
    LET dealstage_id == OrEmpty(props.dealstage)
        stage_entered_date ==
            IF dealstage_id # ""
            THEN parse_timestamp_to_datetime(StageEntered(props, dealstage_id))
            ELSE Null
    IN  IF stage_entered_date # Null
        THEN Some(TimedeltaDays(snapshot_timestamp, stage_entered_date[1]))
        ELSE DaysSinceCreated(props, snapshot_timestamp)

\* The 'days metrics' lines of the loop of transform_deals for one deal.
transform_deals_days ==
    /\ call_pc = "ready"
    /\ call_ret' =
          [days_since_created |->
               DaysSinceCreated(call_args.props, call_args.snapshot_timestamp),
           days_in_current_stage |->
               DaysInCurrentStage(call_args.props, call_args.snapshot_timestamp)]
    /\ call_pc' = "done"
    /\ UNCHANGED call_args
    /\ UNCHANGED not_call_vars

\* The raw timestamps of a deal: the string written for an instant in a
\* shape (with the instant it tells), an absent or empty property, or a
\* string that cannot be parsed (which tell nothing).
Told(dt, shape) ==
    CASE shape = "date" -> DateTime(dt.year, dt.month, dt.day, 0, 0, 0, 0)
      [] shape \in {"iso", "iso_z"} -> [dt EXCEPT !.microsecond = 0]
      [] OTHER -> dt

RawTimestamps(instants, shapes) ==
    {[raw |-> WriteTimestamp(dt, shape), told |-> <<Told(dt, shape)>>] :
        dt \in instants, shape \in shapes}
    \cup {[raw |-> str, told |-> <<>>] :
            str \in {NoneProp, <<>>, <<"1", "2", "a">>}}

\* The snapshot instants of the runs.
SnapshotInstants == {DateTime(1970, 1, 2, 12, 0, 0, 0),
                     DateTime(1970, 1, MaxDay + 1, 0, 0, 0, 500)}

\* 'told' remembers the instants the raw createdate and the raw stage entry
\* timestamp tell.
DaysStart ==
    /\ call_pc = "ready"
    /\ \E created \in RawTimestamps({dt \in Instants : dt.hour = 0 /\ dt.minute = 0
                                          /\ dt.second = 0 /\ dt.microsecond = 0},
                                     {"epoch_ms", "iso_z"}),
          entered \in RawTimestamps({dt \in Instants : dt.minute = 0 /\ dt.second = 0
                                          /\ dt.microsecond \in {0, 5000}},
                                     {"epoch_ms", "iso_fraction_z", "date"}),
          dealstage \in {NoneValue, "", "s1", "s2"},
          snapshot \in SnapshotInstants :
             call_args = [props |-> [dealstage |-> dealstage,
                                     createdate |-> created.raw,
                                     hs_date_entered |-> [st \in {"s1"} |-> entered.raw]],
                          snapshot_timestamp |-> snapshot,
                          told |-> [createdate |-> created.told,
                                    entered |-> entered.told]]
    /\ call_ret = NoneValue

NextDays == transform_deals_days

----------------------------------------------------------------------------
(* calculate_deal_age_status *)

\* The keyword lists of the stage categories, in the order they are tested.
StalledKeywords ==
    { <<"s", "t", "a", "l", "l", "e", "d">>,
      <<"d", "e", "l", "a", "y", "e", "d">> }

EarlyKeywords ==
    { <<"n", "b", "m">>,
      <<"d", "i", "s", "c", "o", "v", "e", "r", "y">>,
      <<"q", "u", "a", "l", "i", "f", "i", "c", "a", "t", "i", "o", "n">>,
      <<"p", "r", "o", "s", "p", "e", "c", "t", "i", "n", "g">>,
      <<"l", "e", "a", "d">>,
      <<"s", "c", "h", "e", "d", "u", "l", "e", "d">> }

MidKeywords ==
    { <<"t", "e", "c", "h", "n", "i", "c", "a", "l">>,
      <<"e", "v", "a", "l", "u", "a", "t", "i", "o", "n">>,
      <<"d", "e", "m", "o">>,
      <<"p", "r", "o", "p", "o", "s", "a", "l">> }

LateKeywords ==
    { <<"n", "e", "g", "o", "t", "i", "a", "t", "i", "o", "n">>,
      <<"c", "o", "n", "t", "r", "a", "c", "t">>,
      <<"c", "l", "o", "s", "i", "n", "g">>,
      <<"f", "i", "n", "a", "l">> }

\* any(s in stage_lower for s in keywords)
ContainsAny(str, keywords) == \E kw \in keywords : Contains(str, kw)

\* if days <= green: 'Green' elif days <= yellow: 'Yellow' else: 'Red'
GradeExclusive(days, green, yellow) ==
    IF days < green THEN "Green" ELSE IF days < yellow THEN "Yellow" ELSE "Red"

Grade(days, green, yellow) ==
    IF days <= green THEN "Green" ELSE IF days <= yellow THEN "Yellow" ELSE "Red"

\* calculate_deal_age_status(days_in_stage, dealstage)
calculate_deal_age_status(days_in_stage, dealstage) ==
    IF days_in_stage = Null THEN "Unknown"
    ELSE LET stage_lower == Lower(dealstage)
             days == days_in_stage[1]
         IN  IF ContainsAny(stage_lower, StalledKeywords)
             THEN (IF days <= 14 THEN "Yellow" ELSE "Red")
             ELSE IF ContainsAny(stage_lower, EarlyKeywords)
             THEN Grade(days, 14, 30)
             ELSE IF ContainsAny(stage_lower, MidKeywords)
             THEN Grade(days, 30, 45)
             ELSE IF ContainsAny(stage_lower, LateKeywords)
             THEN Grade(days, 45, 60)
             ELSE Grade(days, 21, 45)

\* The words the stage labels given to the classifier are made of.
AgeWords == { <<"D", "e", "m", "o">>, <<"L", "e", "a", "d">>,
             <<"C", "l", "o", "s", "i", "n", "g">>,
             <<"S", "t", "a", "l", "l", "e", "d">>, <<" ">>, <<"x">> }

AgeLabels == {Concat(ws) : ws \in UNION {[1..n -> AgeWords] : n \in 0..MaxAgeWords}}

\* The day counts given to the classifier: null and the days around the
\* boundaries.
AgeDays == {Null} \cup {Some(d) : d \in {0, 14, 15, 21, 22, 30, 31, 45, 46, 60, 61}}

\* One call of calculate_deal_age_status.
calculate_deal_age_status_call ==
    /\ call_pc = "ready"
    /\ call_ret' = calculate_deal_age_status(call_args.days_in_stage,
                                             call_args.dealstage)
    /\ call_pc' = "done"
    /\ UNCHANGED call_args
    /\ UNCHANGED not_call_vars

AgeStart ==
    /\ call_pc = "ready"
    /\ call_args \in [days_in_stage : AgeDays, dealstage : AgeLabels]
    /\ call_ret = NoneValue

NextAge == calculate_deal_age_status_call

----------------------------------------------------------------------------
(* fetch_owners *)

STR_Unknown == <<"U", "n", "k", "n", "o", "w", "n">>
STR_Archived == <<"(", "A", "r", "c", "h", "i", "v", "e", "d", ")">>

\* value or ''
OrBlank(v) == IF v = NoneProp THEN <<>> ELSE v

\* str.strip()
RECURSIVE Strip(_)
Strip(str) ==
    IF str = <<>> THEN <<>>
    ELSE IF Head(str) = " " THEN Strip(Tail(str))
    ELSE IF str[Len(str)] = " " THEN Strip(SubSeq(str, 1, Len(str) - 1))
    ELSE str

\* f"{owner.first_name or ''} {owner.last_name or ''}".strip()
FullName(owner) ==
    Strip(OrBlank(owner.first_name) \o <<" ">> \o OrBlank(owner.last_name))

\* The entry of an owner of the active listing.
ActiveEntry(owner) ==
    [name |-> IF FullName(owner) = <<>> THEN STR_Unknown ELSE FullName(owner),
     email |-> OrBlank(owner.email)]

\* The entry of an owner of the archived listing.
ArchivedEntry(owner) ==
    [name |-> (IF FullName(owner) = <<>> THEN STR_Unknown \o <<" ">> \o STR_Archived
               ELSE FullName(owner)) \o <<" ">> \o STR_Archived,
     email |-> OrBlank(owner.email)]

\* owners_dict[owner_id] = entry
Put(dict, key, entry) ==
    [k \in DOMAIN dict \cup {key} |-> IF k = key THEN entry ELSE dict[k]]

\* for owner in owners.results: ... of the active and of the archived loop
StoreArchivedAlways(owners_dict, owner_id, owner) ==
    Put(owners_dict, owner_id, ArchivedEntry(owner))

StoreArchived(owners_dict, owner_id, owner) ==
    IF owner_id \notin DOMAIN owners_dict
    THEN Put(owners_dict, owner_id, ArchivedEntry(owner))
    ELSE owners_dict

RECURSIVE StoreOwners(_, _, _)
StoreOwners(owners_dict, results, archived) ==
    IF results = <<>> THEN owners_dict
    ELSE LET owner == Head(results)
             owner_id == DecimalString(owner.id)
         IN  StoreOwners(IF archived
                         THEN StoreArchived(owners_dict, owner_id, owner)
                         ELSE Put(owners_dict, owner_id, ActiveEntry(owner)),
                         Tail(results), archived)

\* The pages of a listing: at least one, each of up to MaxOwnersPerPage
\* owners, every page but the last one with a paging.next cursor.
NumOwnerPages(listing) ==
    IF listing = <<>> THEN 1
    ELSE (Len(listing) + MaxOwnersPerPage - 1) \div MaxOwnersPerPage

OwnerPage(listing, k) ==
    SubSeq(listing, (k - 1) * MaxOwnersPerPage + 1,
           Min(k * MaxOwnersPerPage, Len(listing)))

\* One try block of fetch_owners: the pages of a listing are read from page
\* k on; get_page raises on page fails (0: on no page), which ends the
\* block with the entries stored so far.
RECURSIVE ReadListing(_, _, _, _, _)
ReadListing(owners_dict, listing, fails, k, archived) ==
    IF k = fails THEN owners_dict
    ELSE LET stored == StoreOwners(owners_dict, OwnerPage(listing, k), archived)
         IN  IF k < NumOwnerPages(listing)
             THEN ReadListing(stored, listing, fails, k + 1, archived)
             ELSE stored

\* fetch_owners(hubspot_client)
fetch_owners(active, active_fails, archived, archived_fails) ==
    LET empty == [k \in {} |-> NoneValue]
        after_active == ReadListing(empty, active, active_fails, 1, FALSE)
    IN  ReadListing(after_active, archived, archived_fails, 1, TRUE)

OwnerObjects ==
    [id : 1..MaxOwnerId,
     first_name : {NoneProp, <<"A">>},
     last_name : {NoneProp},
     email : {NoneProp}]

Listings == UNION {[1..n -> OwnerObjects] : n \in 0..MaxOwnersListed}

\* One call of fetch_owners.
fetch_owners_call ==
    /\ call_pc = "ready"
    /\ call_ret' = fetch_owners(call_args.active, call_args.active_fails,
                                call_args.archived, call_args.archived_fails)
    /\ call_pc' = "done"
    /\ UNCHANGED call_args
    /\ UNCHANGED not_call_vars

OwnersStart ==
    /\ call_pc = "ready"
    /\ \E active \in Listings, archived \in Listings :
         \E active_fails \in 0..NumOwnerPages(active),
            archived_fails \in 0..NumOwnerPages(archived) :
             call_args = [active |-> active, active_fails |-> active_fails,
                          archived |-> archived, archived_fails |-> archived_fails]
    /\ call_ret = NoneValue

NextOwners == fetch_owners_call

----------------------------------------------------------------------------
(* hubspot_to_bigquery_etl *)

\* The sources a run of the pipeline fetches its deals from.
EtlSources == {src \in Sources : Len(Flatten(src)) <= MaxEtlRecords}

\* The meetings endpoint: one meeting per page, at least one page.
MeetingSources ==
    {<< <<>> >>} \cup {[k \in 1..n |-> <<k>>] : n \in 1..MaxMeetings}

\* fetch_all_meetings: pages are fetched until the last one or until the
\* first failure (non-200 status or exception), which ends the loop; the
\* meetings of the pages fetched so far are returned.  failAt is the page
\* whose request fails, 0 when none does.
fetch_all_meetings(src, failAt) ==
    Flatten(SubSeq(src, 1, IF failAt = 0 THEN Len(src) ELSE failAt - 1))

\* The DataFrames built by transform_deals and transform_meetings.
DealsFrame(ds, st) ==
    [k \in 1..Len(ds) |-> Row(ds[k].id, st.date, st.stamp)]

MeetingsFrame(ms, st) ==
    [k \in 1..Len(ms) |->
        [meeting_id |-> ms[k], snapshot_date |-> st.date,
         snapshot_timestamp |-> st.stamp]]

\* What the association lookups of one deal run into: the contact lookup
\* succeeds, is refused (403), exhausts its retries on network failures or
\* fails otherwise; the company lookup succeeds or fails.
ContactLookups == {"ok", "permission", "exhausted", "other"}
CompanyLookups == {"ok", "failed"}
Lookups == [contacts : ContactLookups, company : CompanyLookups]

\* contacts = fetch_associated_contacts(hubspot_client, deal_id): the
\* contacts of the deal, the empty list after a failure.
AssociatedContacts(deal_id, lookup) ==
    IF lookup.contacts = "ok" THEN <<Contact(deal_id)>> ELSE <<>>

\* company = fetch_associated_company(hubspot_client, deal_id): {} after a
\* failure (0 stands for the missing id).
AssociatedCompany(deal_id, lookup) ==
    IF lookup.company = "ok" THEN [id |-> deal_id] ELSE [id |-> 0]

\* The record transform_deals builds for one deal.
DealRecord(deal, lookup, st) ==
    LET cs == AssociatedContacts(deal.id, lookup)
    IN  [hs_object_id |-> deal.id,
         contact_count |-> Len(cs),
         primary_contact_id |-> IF cs # <<>> THEN cs[1].id ELSE 0,
         company_id |-> AssociatedCompany(deal.id, lookup).id,
         snapshot_timestamp |-> st.stamp,
         snapshot_date |-> st.date]

\* for idx, deal in enumerate(deals): ... records.append(record)
RECURSIVE transform_deals_skipping_failed(_, _, _)
transform_deals_skipping_failed(ds, lookups, st) ==
    IF ds = <<>> THEN <<>>
    ELSE (IF Head(lookups).contacts = "ok"
          THEN <<DealRecord(Head(ds), Head(lookups), st)>> ELSE <<>>)
         \o transform_deals_skipping_failed(Tail(ds), Tail(lookups), st)

RECURSIVE transform_deals(_, _, _)
transform_deals(ds, lookups, st) ==
    IF ds = <<>> THEN <<>>
    ELSE <<DealRecord(Head(ds), Head(lookups), st)>>
         \o transform_deals(Tail(ds), Tail(lookups), st)

\* The columns of the records the load depends on.
LoadColumns(records) ==
    [k \in 1..Len(records) |->
        Row(records[k].hs_object_id, records[k].snapshot_date,
            records[k].snapshot_timestamp)]

\* One call of transform_deals.
transform_deals_call ==
    /\ call_pc = "ready"
    /\ call_ret' = transform_deals(call_args.deals, call_args.lookups,
                                   call_args.snapshot_timestamp)
    /\ call_pc' = "done"
    /\ UNCHANGED call_args
    /\ UNCHANGED not_call_vars

BatchStart ==
    /\ call_pc = "ready"
    /\ \E n \in 0..MaxEtlRecords :
         \E lookups \in [1..n -> Lookups], d \in Dates, t \in Stamps :
             call_args = [deals |-> [k \in 1..n |-> Deal(k, NoneValue)],
                          lookups |-> lookups,
                          snapshot_timestamp |-> [date |-> d, stamp |-> t]]
    /\ call_ret = NoneValue

NextBatch == transform_deals_call

\* The steps inside the try block of hubspot_to_bigquery_etl: an exception
\* leaving one of them is caught by "except Exception".
InsideTryAllButValidate(step) == step # "validate"

InsideTry(step) == TRUE

\* An exception leaves the given step.
EtlRaise(step) ==
    /\ etl_failed' = etl_failed \cup {step}
    /\ IF InsideTry(step)
       THEN /\ etl_pc' = "returned"
            /\ etl_result' = [status |-> "error", message |-> step,
                              snapshot_timestamp |-> start_time]
       ELSE /\ etl_pc' = "propagated"
            /\ UNCHANGED etl_result

\* start_time = datetime.now(timezone.utc)
etl_start ==
    /\ etl_pc = "idle"
    /\ start_time' = now
    /\ etl_pc' = "validate"
    /\ UNCHANGED <<deals, rows_loaded, meetings, etl_result, etl_failed,
                   pipelines_lookup, etl_trace>>
    /\ UNCHANGED <<load_vars, fetch_vars, contact_vars, transform_vars, call_vars>>
    /\ UNCHANGED now

\* validate_environment()
etl_validate ==
    /\ etl_pc = "validate"
    /\ \E ok \in BOOLEAN :
          IF ok
          THEN /\ etl_pc' = "refdata"
               /\ etl_trace' = Append(etl_trace, "validate")
               /\ UNCHANGED <<etl_result, etl_failed>>
          ELSE EtlRaise("validate") /\ UNCHANGED etl_trace
    /\ UNCHANGED <<start_time, deals, rows_loaded, meetings, pipelines_lookup>>
    /\ UNCHANGED <<load_vars, fetch_vars, contact_vars, transform_vars, call_vars>>
    /\ UNCHANGED now

\* fetch_all_deal_properties, fetch_pipelines and fetch_owners (each one
\* catches its own failures and returns a default), then the call of
\* fetch_all_deals.
\*   pipelines: "found" (the target pipeline is listed), "missing", "failed"
etl_refdata ==
    /\ etl_pc = "refdata"
    /\ \E propsOk \in BOOLEAN, pipelines \in {"found", "missing", "failed"},
          ownersOk \in BOOLEAN, src \in EtlSources :
          /\ etl_failed' = etl_failed
                \cup (IF propsOk THEN {} ELSE {"deal_properties"})
                \cup (IF pipelines # "failed" /\ ownersOk THEN {} ELSE {"refdata"})
          /\ pipelines_lookup' = pipelines
          /\ fd_pc' = "running"
          /\ fd_source' = src
          /\ target_pipeline_id' = IF pipelines = "found" THEN "p1" ELSE NoneValue
          /\ after' = 0
          /\ page_count' = 1
          /\ retry_count' = 0
          /\ all_deals' = <<>>
          /\ fd_wait' = 0
          /\ fd_fails' = 0
          /\ fd_failTotal' = 0
          /\ fd_status' = 0
    /\ etl_pc' = "deals"
    /\ etl_trace' = Append(etl_trace, "refdata")
    /\ UNCHANGED <<start_time, deals, rows_loaded, meetings, etl_result>>
    /\ UNCHANGED <<load_vars, contact_vars, transform_vars, call_vars>>
    /\ UNCHANGED now

\* The locals of fetch_all_deals are gone once it has returned or raised.
FetchLeave ==
    /\ fd_pc' = "off"
    /\ fd_source' = <<>>
    /\ target_pipeline_id' = NoneValue
    /\ after' = 0
    /\ page_count' = 0
    /\ retry_count' = 0
    /\ all_deals' = <<>>
    /\ fd_wait' = 0
    /\ fd_fails' = 0
    /\ fd_failTotal' = 0
    /\ fd_status' = 0

\* fetch_all_deals raised.
etl_deals_raised_keeping_pages ==
    /\ etl_pc = "deals"
    /\ fd_pc = "raised"
    /\ etl_failed' = etl_failed \cup {"deal_fetch"}
    /\ deals' = all_deals
    /\ etl_pc' = "transform"
    /\ FetchLeave
    /\ UNCHANGED <<start_time, rows_loaded, meetings, etl_result,
                   pipelines_lookup, etl_trace>>
    /\ UNCHANGED <<load_vars, contact_vars, transform_vars, call_vars>>
    /\ UNCHANGED now

etl_deals_raised ==
    /\ etl_pc = "deals"
    /\ fd_pc = "raised"
    /\ EtlRaise("deal_fetch")
    /\ FetchLeave
    /\ UNCHANGED <<start_time, deals, rows_loaded, meetings, pipelines_lookup,
                   etl_trace>>
    /\ UNCHANGED <<load_vars, contact_vars, transform_vars, call_vars>>
    /\ UNCHANGED now

\* fetch_all_deals returned: the "no deals" early return, else transform.
etl_deals_returned ==
    /\ etl_pc = "deals"
    /\ fd_pc = "returned"
    /\ deals' = all_deals
    /\ IF all_deals = <<>>
       THEN /\ etl_pc' = "returned"
            /\ etl_result' = [status |-> "success", deals_extracted |-> 0,
                              rows_loaded |-> 0]
       ELSE /\ etl_pc' = "transform"
            /\ UNCHANGED etl_result
    /\ FetchLeave
    /\ etl_trace' = Append(etl_trace, "deal_fetch")
    /\ UNCHANGED <<start_time, rows_loaded, meetings, etl_failed,
                   pipelines_lookup>>
    /\ UNCHANGED <<load_vars, contact_vars, transform_vars, call_vars>>
    /\ UNCHANGED now

\* transform_deals, then the call of load_to_bigquery.
etl_transform_rereading_clock ==
    /\ etl_pc = "transform"
    /\ \E ok \in BOOLEAN, lookups \in [1..Len(deals) -> Lookups] :
          IF ok
          THEN /\ LoadStart(1, DEALS_TABLE,
                            LoadColumns(transform_deals(deals, lookups, now)))
               /\ etl_pc' = "load_deals"
               /\ etl_trace' = Append(etl_trace, "deal_transform")
               /\ UNCHANGED <<etl_result, etl_failed>>
          ELSE /\ EtlRaise("transform")
               /\ UNCHANGED <<load_vars, etl_trace>>
    /\ UNCHANGED <<start_time, deals, rows_loaded, meetings, pipelines_lookup>>
    /\ UNCHANGED <<fetch_vars, contact_vars, transform_vars, call_vars>>
    /\ UNCHANGED now

etl_transform ==
    /\ etl_pc = "transform"
    /\ \E ok \in BOOLEAN, lookups \in [1..Len(deals) -> Lookups] :
          IF ok
          THEN /\ LoadStart(1, DEALS_TABLE,
                            LoadColumns(transform_deals(deals, lookups, start_time)))
               /\ etl_pc' = "load_deals"
               /\ etl_trace' = Append(etl_trace, "deal_transform")
               /\ UNCHANGED <<etl_result, etl_failed>>
          ELSE /\ EtlRaise("transform")
               /\ UNCHANGED <<load_vars, etl_trace>>
    /\ UNCHANGED <<start_time, deals, rows_loaded, meetings, pipelines_lookup>>
    /\ UNCHANGED <<fetch_vars, contact_vars, transform_vars, call_vars>>
    /\ UNCHANGED now

\* load_to_bigquery raised.
etl_load_deals_raised ==
    /\ etl_pc = "load_deals"
    /\ ld_pc[1] = "raised"
    /\ EtlRaise("deal_load")
    /\ UNCHANGED <<start_time, deals, rows_loaded, meetings, pipelines_lookup,
                   etl_trace>>
    /\ UNCHANGED <<load_vars, fetch_vars, contact_vars, transform_vars, call_vars>>
    /\ UNCHANGED now

\* load_to_bigquery returned; fetch_all_meetings; with no meeting the run
\* ends, else transform_meetings and the call of load_meetings_to_bigquery.
etl_meetings ==
    /\ etl_pc = "load_deals"
    /\ ld_pc[1] = "done"
    /\ rows_loaded' = ld_ret[1]
    /\ \E src \in MeetingSources, failAt \in 0..MaxMeetings, ok \in BOOLEAN :
          /\ failAt <= Len(src)
          /\ LET ms == fetch_all_meetings(src, failAt)
                 failed == etl_failed
                             \cup (IF failAt # 0 THEN {"meeting_fetch"} ELSE {})
                 fetched == etl_trace \o <<"deal_load", "meeting_fetch">>
             IN  /\ meetings' = ms
                 /\ etl_trace' = IF ms # <<>> /\ ok
                                 THEN Append(fetched, "meeting_transform")
                                 ELSE fetched
                 /\ IF ms = <<>>
                    THEN /\ etl_pc' = "returned"
                         /\ etl_failed' = failed
                         /\ etl_result' =
                               [status |-> "success",
                                deals_extracted |-> Len(deals),
                                rows_loaded |-> ld_ret[1],
                                meetings_extracted |-> 0,
                                meetings_loaded |-> 0,
                                snapshot_timestamp |-> start_time]
                         /\ UNCHANGED load_vars
                    ELSE IF ok
                    THEN /\ LoadStart(1, MEETINGS_TABLE,
                                      MeetingsFrame(ms, start_time))
                         /\ etl_pc' = "load_meetings"
                         /\ etl_failed' = failed
                         /\ UNCHANGED etl_result
                    ELSE \* transform_meetings raised
                         /\ etl_failed' = failed \cup {"meeting_transform"}
                         /\ etl_pc' = IF InsideTry("meeting_transform")
                                      THEN "returned" ELSE "propagated"
                         /\ etl_result' =
                               IF InsideTry("meeting_transform")
                               THEN [status |-> "error",
                                     message |-> "meeting_transform",
                                     snapshot_timestamp |-> start_time]
                               ELSE etl_result
                         /\ UNCHANGED load_vars
    /\ UNCHANGED <<start_time, deals, pipelines_lookup>>
    /\ UNCHANGED <<fetch_vars, contact_vars, transform_vars, call_vars>>
    /\ UNCHANGED now

\* load_meetings_to_bigquery raised.
etl_load_meetings_raised ==
    /\ etl_pc = "load_meetings"
    /\ ld_pc[1] = "raised"
    /\ EtlRaise("meeting_load")
    /\ UNCHANGED <<start_time, deals, rows_loaded, meetings, pipelines_lookup,
                   etl_trace>>
    /\ UNCHANGED <<load_vars, fetch_vars, contact_vars, transform_vars, call_vars>>
    /\ UNCHANGED now

\* load_meetings_to_bigquery returned: the summary is assembled and returned.
etl_finish ==
    /\ etl_pc = "load_meetings"
    /\ ld_pc[1] = "done"
    /\ etl_pc' = "returned"
    /\ etl_result' = [status |-> "success",
                      deals_extracted |-> Len(deals),
                      rows_loaded |-> rows_loaded,
                      meetings_extracted |-> Len(meetings),
                      meetings_loaded |-> ld_ret[1],
                      snapshot_timestamp |-> start_time]
    /\ etl_trace' = Append(etl_trace, "meeting_load")
    /\ UNCHANGED <<start_time, deals, rows_loaded, meetings, etl_failed,
                   pipelines_lookup>>
    /\ UNCHANGED <<load_vars, fetch_vars, contact_vars, transform_vars, call_vars>>
    /\ UNCHANGED now

\* The warehouse left by an earlier run of day "d1" that loaded one deal and
\* one meeting.
EarlierRun == [date |-> "d1", stamp |-> 1]

EarlierTables ==
    [t \in TableNames |->
        [exists |-> TRUE,
         rows |-> IF t = DEALS_TABLE
                  THEN BagOfSeq(DealsFrame(<<Deal(1, NoneValue)>>, EarlierRun))
                  ELSE BagOfSeq(MeetingsFrame(<<1>>, EarlierRun))]]

EtlIdle ==
    /\ etl_pc = "idle"
    /\ start_time = NoneValue
    /\ deals = <<>>
    /\ rows_loaded = 0
    /\ meetings = <<>>
    /\ etl_result = NoneValue
    /\ etl_failed = {}
    /\ pipelines_lookup = NoneValue
    /\ etl_trace = <<>>

\* The instants of the clock: date "d1" comes before date "d2", and the
\* stamps of a date follow one another.
ClockInstants == [date : Dates, stamp : Stamps]

EtlOff == EtlIdle /\ now = [date |-> "d1", stamp |-> 1]

\* Midnight passes while the run is going on: the clock moves from date "d1"
\* to the first instant of date "d2".
clock_tick ==
    /\ etl_pc \notin {"idle", "returned", "propagated"}
    /\ now.date = "d1"
    /\ now' = [date |-> "d2", stamp |-> 1]
    /\ UNCHANGED <<etl_pc, start_time, deals, rows_loaded, meetings, etl_result,
                   etl_failed, pipelines_lookup, etl_trace>>
    /\ UNCHANGED <<load_vars, fetch_vars, contact_vars, transform_vars, call_vars>>

NextEtl ==
    \/ etl_start
    \/ etl_validate
    \/ etl_refdata
    \/ fetch_all_deals_page_ok
    \/ fetch_all_deals_rate_limited
    \/ fetch_all_deals_api_error
    \/ fetch_all_deals_exception
    \/ etl_deals_raised
    \/ etl_deals_returned
    \/ etl_transform
    \/ load_to_bigquery_ensure
    \/ load_meetings_to_bigquery_ensure
    \/ load_to_bigquery_delete
    \/ load_to_bigquery_append
    \/ load_to_bigquery_return
    \/ etl_load_deals_raised
    \/ etl_meetings
    \/ etl_load_meetings_raised
    \/ etl_finish

----------------------------------------------------------------------------
(* Properties of the snapshot loader *)

DealRows == tables[DEALS_TABLE].rows

\* C1: after a load of a non-empty DataFrame R of snapshot date d has run
\* to completion (in particular after the second of two loads of the same
\* R), partition d holds exactly one copy of each row of R and no other row.
C1_IdempotentReload ==
    (ld_pc[1] = "done" /\ ld_df[1] # <<>>)
        => Partition(DealRows, BatchDate(ld_df[1])) = BagOfSeq(ld_df[1])

\* C1 witness: the same two-row DataFrame has been loaded to completion
\* twice in a row.
C1_Witness ==
    /\ ld_pc[1] = "done"
    /\ ld_prev[1] = "done"
    /\ ld_repeat
    /\ Len(ld_df[1]) = 2

\* C10: with runs that may crash after any step, partition d holds in
\* every state the rows of the last completed load, or nothing, or the rows
\* of the DataFrame being loaded (never a mix); and a load that completes
\* after a crashed run leaves exactly its own DataFrame in partition d.
C10_NoMixAfterCrash ==
    /\ \A d \in Dates :
          LET p == Partition(DealRows, d)
          IN  \/ p = BagOfSeq(wh_lastCompleted[DEALS_TABLE][d])
              \/ p = EmptyBag
              \/ /\ ld_df[1] # <<>>
                 /\ BatchDate(ld_df[1]) = d
                 /\ p = BagOfSeq(ld_df[1])
    /\ (/\ ld_pc[1] \in {"appended", "done"}
        /\ ld_df[1] # <<>>
        /\ ld_prev[1] \in {"crashed_at_start", "crashed_after_ensure",
                           "crashed_after_delete", "crashed_after_append"})
          => Partition(DealRows, BatchDate(ld_df[1])) = BagOfSeq(ld_df[1])

\* C10 witness: a run has crashed between its delete and its append, leaving
\* the partition of a previously loaded date empty.
C10_Witness ==
    /\ ld_pc[1] = "crashed_after_delete"
    /\ wh_lastCompleted[DEALS_TABLE][BatchDate(ld_df[1])] # <<>>
    /\ Partition(DealRows, BatchDate(ld_df[1])) = EmptyBag

\* The number of rows of partition d that carry the external id i.
CopiesOf(i, d) ==
    BagCardinality(LET p == Partition(DealRows, d)
                       keep == {r \in DOMAIN p : r.hs_object_id = i}
                   IN  [r \in keep |-> p[r]])

\* C11: when two overlapping runs have each loaded to completion a
\* DataFrame of the same snapshot date (external ids unique inside each
\* DataFrame), no external id occurs more than once in that date's
\* partition, whatever the interleaving of their delete and append steps.
C11_NoDuplicateAfterOverlap ==
    (/\ \A r \in {1, 2} : ld_pc[r] = "done" /\ ld_df[r] # <<>>
     /\ BatchDate(ld_df[1]) = BatchDate(ld_df[2]))
        => \A i \in DealIdsOn(BatchDate(ld_df[1])) :
              CopiesOf(i, BatchDate(ld_df[1])) <= 1

\* C21: a call of load_to_bigquery or of load_meetings_to_bigquery with an
\* empty DataFrame returns 0 and changes nothing in the warehouse: no
\* dataset or table is created and the rows of both tables stay as they
\* were.
C21_EmptyLoadNoOp ==
    [][(ld_pc'[1] = "done" /\ ld_df'[1] = <<>>)
          => /\ ld_ret'[1] = 0
             /\ tables' = tables
             /\ dataset_exists' = dataset_exists]_vars

\* C21 witness: load_meetings_to_bigquery has returned from a call with an
\* empty DataFrame while the meeting table held rows, and the deal table
\* did not exist.
C21_Witness ==
    /\ ld_pc[1] = "done"
    /\ ld_prev[1] = "done"
    /\ ld_df[1] = <<>>
    /\ ld_table[1] = MEETINGS_TABLE
    /\ ld_ret[1] = 0
    /\ tables[MEETINGS_TABLE].rows # EmptyBag
    /\ ~tables[DEALS_TABLE].exists

\* C26: no step of a load of a batch of snapshot date d, completed or cut
\* short by a crash, changes the rows that a table holds for another date
\* or the rows of the other table, and the append of the batch leaves
\* exactly the rows of the batch in partition d; so the rows of a date that
\* no later batch carries stay those of the last completed load for it.
C26_OtherDatesUntouched ==
    [][/\ \A t \in TableNames, d \in Dates :
             (t # ld_table'[1] \/ ld_df'[1] = <<>> \/ d # BatchDate(ld_df'[1]))
                => Partition(tables'[t].rows, d) = Partition(tables[t].rows, d)
       /\ (ld_pc[1] = "append" /\ ld_pc'[1] = "appended")
             => Partition(tables'[ld_table[1]].rows, BatchDate(ld_df[1]))
                   = BagOfSeq(ld_df[1])]_vars

\* C26 witness: a load of the meeting table for d2 died after its delete,
\* and the rows loaded earlier for d1 are still those of the last completed
\* load for d1, in the meeting table and in the deal table.
C26_Witness ==
    /\ ld_pc[1] = "crashed_after_delete"
    /\ ld_table[1] = MEETINGS_TABLE
    /\ BatchDate(ld_df[1]) = "d2"
    /\ wh_lastCompleted[MEETINGS_TABLE]["d2"] # <<>>
    /\ Partition(tables[MEETINGS_TABLE].rows, "d2") = EmptyBag
    /\ \A t \in TableNames :
          /\ wh_lastCompleted[t]["d1"] # <<>>
          /\ Partition(tables[t].rows, "d1") = BagOfSeq(wh_lastCompleted[t]["d1"])

\* C22: ensure_table_exists called when the table already exists changes
\* nothing and does not raise, whatever the outcome of the existence
\* lookup, so the load goes on to its delete step.
C22_EnsureIdempotent ==
    [][(/\ ld_pc[1] = "ensure"
        /\ tables[ld_table[1]].exists
        /\ ld_pc'[1] \in {"delete", "raised"})
          => /\ ld_pc'[1] = "delete"
             /\ tables' = tables
             /\ dataset_exists' = dataset_exists]_vars

----------------------------------------------------------------------------
(* Properties of the paginated fetcher *)

\* C3: with no pipeline filter, fetch_all_deals returns the records of all
\* the pages, each once and in page order, whatever the number of pages and
\* whatever attempts failed on the way; a failed attempt leaves the cursor
\* and the accumulated records as they were (the records accumulated so far
\* are those of the pages before the cursor).
C3_PaginationComplete ==
    (fd_pc # "off" /\ target_pipeline_id = NoneValue)
        => /\ fd_pc = "returned" => all_deals = Flatten(fd_source)
           /\ fd_pc # "returned"
                 => all_deals = Flatten(SubSeq(fd_source, 1, after))

\* C3 witness: a source of several pages has been fetched completely, with
\* no filter, after at least one failed attempt.
C3_Witness ==
    /\ fd_pc = "returned"
    /\ target_pipeline_id = NoneValue
    /\ Len(fd_source) >= 2
    /\ fd_failTotal >= 1
    /\ Len(all_deals) >= 2

\* C4: the list returned holds exactly the source records of the target
\* pipeline when a target pipeline id is passed, and every source record
\* when it is null.
C4_PartitionFilter ==
    fd_pc = "returned"
        => /\ Range(all_deals) =
                {d \in Range(Flatten(fd_source)) :
                    target_pipeline_id = NoneValue
                    \/ d.pipeline = target_pipeline_id}
           /\ \A i, j \in 1..Len(all_deals) :
                 all_deals[i] = all_deals[j] => i = j

\* C4 witness: a filtered fetch over several pages that kept a record and
\* dropped another one.
C4_Witness ==
    /\ fd_pc = "returned"
    /\ target_pipeline_id # NoneValue
    /\ Len(fd_source) >= 2
    /\ all_deals # <<>>
    /\ Len(all_deals) < Len(Flatten(fd_source))

\* C5: a page is attempted at most max_retries (5) times: after 5
\* consecutive failed attempts on one page, of whatever kinds, the function
\* has raised and attempts the page no more.
C5_RetryCeiling ==
    /\ fd_fails <= max_retries
    /\ fd_fails = max_retries => fd_pc = "raised"

\* C23: the number of failed get_page attempts of a run, and so of backoff
\* waits, is bounded: with a ceiling of max_retries attempts per page, a
\* run over a source of n pages sees at most n * max_retries failures
\* before fetch_all_deals returns or raises.
C23_AttemptsBounded ==
    fd_pc # "off" => fd_failTotal <= Len(fd_source) * max_retries

\* C24: the wait taken for a rate-limit (429) answer that follows another
\* rate-limit answer on the same page is not shorter than the previous one
\* and is at most 60 seconds, and the wait taken after a failure of another
\* kind is 5 seconds.
C24_BackoffMonotoneCapped ==
    [][(fd_pc' = "running" /\ fd_failTotal' = fd_failTotal + 1)
          => /\ fd_status' = 429 => fd_wait' <= 60
             /\ (fd_status = 429 /\ fd_status' = 429) => fd_wait' >= fd_wait
             /\ fd_status' # 429 => fd_wait' = 5]_vars

\* C13: a 403 answer to get_page is terminal: right after it the function
\* has raised, so that no further get_page call follows.
C13_PermissionFailureTerminal ==
    fd_status = 403 => fd_pc = "raised"

----------------------------------------------------------------------------
(* Properties of the association resolver *)

Last(h) == h[Len(h)]

ContactListed == contact_ids # <<>>

\* The positions of contact_ids whose hydration ended in success.
Hydrated == {k \in 1..Len(fc_hist) : fc_hist[k] # <<>> /\ Last(fc_hist[k]) = "ok"}

\* C7: a permission (403) failure of a get_by_id call ends the attempts on
\* that contact id (an id whose first attempt is refused is attempted once),
\* is followed by no backoff wait, and the id is not in the result; when
\* every id is refused the result is empty.
C7_PermissionNoRetry ==
    /\ \A k \in 1..Len(fc_hist) : \A j \in 1..Len(fc_hist[k]) :
          fc_hist[k][j] = "api_403"
             => /\ j = Len(fc_hist[k])
                /\ \A c \in 1..Len(contacts) : contacts[c].id # contact_ids[k]
    /\ (fc_pc = "hydrating" /\ fc_wait > 0)
          => (fc_hist[fc_idx] # <<>> /\ Last(fc_hist[fc_idx]) # "api_403")
    /\ (fc_pc = "returned" /\ \A k \in 1..Len(fc_hist) : fc_hist[k] = <<"api_403">>)
          => contacts = <<>>

\* C7 witness: two contacts were listed, each was refused (403) on its only
\* attempt, and the function returned the empty list.
C7_Witness ==
    /\ fc_pc = "returned"
    /\ Len(contact_ids) = 2
    /\ \A k \in 1..2 : fc_hist[k] = <<"api_403">>
    /\ contacts = <<>>

\* The attempts made on one contact id, as the retry policy prescribes:
\* transient failures only before the last attempt, at most 3 attempts, and
\* a last attempt that is a success, a non-transient failure, or the third
\* transient failure.
PolicyHistory(h) ==
    /\ Len(h) \in 1..contact_max_retries
    /\ \A j \in 1..(Len(h) - 1) : h[j] \in TransientKinds
    /\ Last(h) \in TransientKinds => Len(h) = contact_max_retries

\* C8: once the listing has succeeded, every listed id is attempted as the
\* policy prescribes, independently of the other ids, and the result holds,
\* in listing order, one entry for each id whose attempts ended in success.
C8_PerIdRetryPolicy ==
    (fc_pc = "returned" /\ ContactListed)
        => /\ \A k \in 1..Len(contact_ids) : PolicyHistory(fc_hist[k])
           /\ Len(contacts) = Cardinality(Hydrated)
           /\ \A c \in 1..Len(contacts) :
                 \E k \in Hydrated :
                    /\ contacts[c] = Contact(contact_ids[k])
                    /\ c = Cardinality({m \in Hydrated : m <= k})

\* C8 witness: of two listed ids, the first succeeded after two transient
\* failures and the second was skipped after three transient failures.
C8_Witness ==
    /\ fc_pc = "returned"
    /\ Len(contact_ids) = 2
    /\ Len(fc_hist[1]) = 3 /\ Last(fc_hist[1]) = "ok"
    /\ Len(fc_hist[2]) = 3 /\ Last(fc_hist[2]) \in TransientKinds
    /\ contacts = <<Contact(contact_ids[1])>>

C25_ListingRetryPolicy ==
    LET n == Len(fc_listHist)
    IN  /\ n <= contact_max_retries
        /\ \A j \in 1..(n - 1) : fc_listHist[j] \in TransientKinds
        /\ fc_pc = "listing"
              => /\ n < contact_max_retries
                 /\ n = 1 => fc_wait = 1
                 /\ n = 2 => fc_wait = 2
        /\ (fc_pc # "off" /\ n > 0 /\ Last(fc_listHist) \in TransientKinds)
              => (fc_pc = "listing" <=> n < contact_max_retries)
        /\ (n > 0 /\ Last(fc_listHist) \in ListingFailures /\ fc_pc # "listing")
              => (fc_pc = "returned" /\ contacts = <<>>)

\* C25 witness: three transient failures of the listing, then the empty
\* list.
C25_Witness ==
    /\ fc_pc = "returned"
    /\ Len(fc_listHist) = 3
    /\ \A j \in 1..3 : fc_listHist[j] \in TransientKinds
    /\ contacts = <<>>

\* C25 witness of the other cases: a permission failure on the second
\* attempt ended the call, and a success on the second attempt was
\* followed by the hydration of the listed ids.
C25_WitnessPermission ==
    /\ fc_pc = "returned"
    /\ fc_listHist = <<"network", "perm_msg">>

C25_WitnessSuccess ==
    /\ fc_pc = "returned"
    /\ fc_listHist = <<"conn_msg", "ok">>
    /\ contacts # <<>>

----------------------------------------------------------------------------
(* Properties of the record transformer *)

\* C6: in every row built by transform_deals exactly one of is_open, is_won
\* and is_lost is true, whatever the resolved stage label.
C6_ExactlyOneStatus ==
    tr_pc = "done"
        => Cardinality({f \in {"is_open", "is_won", "is_lost"} : tr_row[f]}) = 1

----------------------------------------------------------------------------
(* Properties of the orchestrator *)

\* The steps whose failure the orchestrator's contract speaks of.
ContractSteps == {"validate", "refdata", "deal_fetch", "transform", "deal_load",
                  "meeting_fetch", "meeting_transform", "meeting_load"}

\* The steps that report a failure by raising; the reference-data loaders
\* and fetch_all_meetings catch their own failures.
RaisingSteps == {"validate", "deal_fetch", "transform", "deal_load",
                 "meeting_transform", "meeting_load"}

C27_FetchErrorWritesNothing ==
    ((etl_pc = "deals" /\ fd_pc = "raised") \/ "deal_fetch" \in etl_failed)
        => /\ tables = EarlierTables
           /\ ld_pc[1] = "idle"
           /\ deals = <<>>
           /\ "deal_fetch" \in etl_failed
                 => /\ etl_pc = "returned"
                    /\ etl_result.status = "error"
                    /\ all_deals = <<>>

\* C27 witness: the run has returned after fetch_all_deals raised, and the
\* warehouse is the one the earlier run left.
C27_Witness ==
    /\ etl_pc = "returned"
    /\ "deal_fetch" \in etl_failed
    /\ start_time.date = EarlierRun.date
    /\ tables = EarlierTables

\* C27 witness of a failure on a later page: fetch_all_deals raises with
\* the deals of the first page fetched.
C27_WitnessLaterPage ==
    /\ etl_pc = "deals"
    /\ fd_pc = "raised"
    /\ after > 0
    /\ all_deals # <<>>

\* C29: whatever the contact and company lookups of the deals run into,
\* the DataFrame handed to load_to_bigquery holds one row per fetched deal,
\* in fetch order, and a run that returns success reports as many rows
\* loaded as deals extracted, all of them stored.
C29_OneRowPerDeal ==
    /\ etl_pc = "load_deals"
          => /\ Len(ld_df[1]) = Len(deals)
             /\ \A k \in 1..Len(deals) : ld_df[1][k].hs_object_id = deals[k].id
    /\ (etl_pc = "returned" /\ etl_result.status = "success")
          => /\ etl_result.rows_loaded = etl_result.deals_extracted
             /\ etl_result.deals_extracted = Len(deals)
             /\ BagCardinality(Partition(DealRows, start_time.date)) = Len(deals)

\* C29, at the level of the records: the k-th record is the record of the
\* k-th deal, built from that deal and from the outcome of its own lookups
\* only, whatever the lookups of the other deals ran into.
C29_RowsIndependent ==
    call_pc = "done"
        => /\ Len(call_ret) = Len(call_args.deals)
           /\ \A k \in 1..Len(call_ret) :
                 LET lookup == call_args.lookups[k]
                 IN  /\ call_ret[k].hs_object_id = call_args.deals[k].id
                     /\ call_ret[k].contact_count > 0 <=> lookup.contacts = "ok"
                     /\ call_ret[k].company_id # 0 <=> lookup.company = "ok"

\* C29 witness at the level of the records: the first deal's lookups
\* failed, the second deal's succeeded, and both have their record.
C29_WitnessFailedLookups ==
    /\ call_pc = "done"
    /\ Len(call_args.deals) = 2
    /\ call_args.lookups[1] = [contacts |-> "permission", company |-> "failed"]
    /\ call_args.lookups[2] = [contacts |-> "ok", company |-> "ok"]
    /\ Len(call_ret) = 2
    /\ call_ret[2].primary_contact_id = 2

\* C29 witness: a run over two deals has returned success with two rows
\* loaded.
C29_Witness ==
    /\ etl_pc = "returned"
    /\ etl_result.status = "success"
    /\ Len(deals) = 2
    /\ etl_result.rows_loaded = 2

\* C30: every row a run hands to a loader carries the date and the instant
\* read at the start of the run, also when the day has changed since; the
\* run changes the partition of its start day only, in both tables, and
\* every row it stores there carries its start instant.
C30_SnapshotFixedAtStart ==
    etl_pc # "idle"
        => /\ (etl_pc \in {"load_deals", "load_meetings"})
                 => \A k \in 1..Len(ld_df[1]) :
                       /\ ld_df[1][k].snapshot_date = start_time.date
                       /\ ld_df[1][k].snapshot_timestamp = start_time.stamp
           /\ \A t \in TableNames :
                 /\ \A d \in Dates \ {start_time.date} :
                       Partition(tables[t].rows, d) = Partition(EarlierTables[t].rows, d)
                 /\ \A r \in DOMAIN tables[t].rows :
                       \/ r \in DOMAIN EarlierTables[t].rows
                       \/ /\ r.snapshot_date = start_time.date
                          /\ r.snapshot_timestamp = start_time.stamp

\* C30 witness: a run started on day d1 has loaded its deals and its
\* meetings after the day changed to d2, and both tables hold its rows in
\* the partition of d1 and nothing in the partition of d2.
C30_Witness ==
    /\ etl_pc = "returned"
    /\ etl_result.status = "success"
    /\ start_time = [date |-> "d1", stamp |-> MaxStamp]
    /\ now.date = "d2"
    /\ meetings # <<>>
    /\ \A t \in TableNames :
          /\ tables[t].rows # EmptyBag
          /\ \A r \in DOMAIN tables[t].rows :
                r.snapshot_date = "d1" /\ r.snapshot_timestamp = MaxStamp

\* C12: in a run in which fetch_pipelines found no pipeline with the target
\* label (and no step failed), no deal row is ever written to the warehouse
\* and the result returned is a success with deals_extracted = 0 and
\* rows_loaded = 0, whatever deals the source holds.
C12_MissingPipelineLoadsNothing ==
    (pipelines_lookup = "missing" /\ etl_failed = {})
        => /\ DealRows = EmptyBag
           /\ etl_pc = "returned"
                 => /\ etl_result.status = "success"
                    /\ etl_result.deals_extracted = 0
                    /\ etl_result.rows_loaded = 0

\* C14: a failed page fetch of meetings is terminal for the run: it is not
\* followed by a load of the meetings fetched so far (the meeting partition
\* is left alone) and the run does not report success.
C14_MeetingFetchFailureTerminal ==
    "meeting_fetch" \in etl_failed
        => /\ etl_pc # "load_meetings"
           /\ tables[MEETINGS_TABLE].rows = EmptyBag
           /\ etl_pc = "returned" => etl_result.status # "success"

\* The steps of one invocation, in the order of the orchestrator's sequence.
StepSequence == <<"validate", "refdata", "deal_fetch", "deal_transform",
                  "deal_load", "meeting_fetch", "meeting_transform",
                  "meeting_load">>

\* C15: a run that returns 'success' has executed all the steps of the
\* sequence, in order, each after the previous one has finished (with no
\* meeting fetched, the meeting transform and the meeting load have nothing
\* to do); in particular it has fetched the meetings, also when the deal
\* fetch returned no deal.
C15_StepOrder ==
    (etl_pc = "returned" /\ etl_result.status = "success")
        => etl_trace = IF meetings = <<>> THEN SubSeq(StepSequence, 1, 6)
                       ELSE StepSequence

----------------------------------------------------------------------------
(* Properties of the derived fields *)

\* A string that writes a number: an optional sign, then digits with at
\* most one point among them, and at least one digit.
IsNumeric(str) ==
    LET body == IF str # <<>> /\ str[1] = "-" THEN Tail(str) ELSE str
    IN  /\ \A k \in 1..Len(body) : body[k] \in DOMAIN Digits \cup {"."}
        /\ Cardinality({k \in 1..Len(body) : body[k] = "."}) <= 1
        /\ \E k \in 1..Len(body) : body[k] \in DOMAIN Digits

\* The number a numeric string writes: its digits read as one integer (the
\* digit at position k is followed by the digits of the later positions),
\* with as many decimals as there are digits after the point.
RECURSIVE PlaceValues(_, _, _)
PlaceValues(body, point, k) ==
    IF k > Len(body) THEN 0
    ELSE (IF k = point THEN 0
          ELSE Digits[body[k]]
                 * 10 ^ (Len(body) - k
                           - (IF k < point /\ point <= Len(body) THEN 1 ELSE 0)))
         + PlaceValues(body, point, k + 1)

NumberOf(str) ==
    LET neg == str[1] = "-"
        body == IF neg THEN Tail(str) ELSE str
        points == {k \in 1..Len(body) : body[k] = "."}
        point == IF points = {} THEN Len(body) + 1 ELSE CHOOSE k \in points : TRUE
    IN  Decimal((IF neg THEN -1 ELSE 1) * PlaceValues(body, point, 1),
                IF points = {} THEN 0 ELSE Len(body) - point)

\* x * y on decimal numbers
Times(x, y) == Decimal(x.m * y.m, x.f + y.f)

\* C16: weighted_amount is null whenever the raw amount or the raw stage
\* probability is missing, empty or non-numeric, and otherwise it is the
\* product of the two numbers (a zero amount gives zero, not null).
C16_WeightedAmount ==
    call_pc = "done"
        => LET a == call_args.amount
               p == call_args.hs_deal_stage_probability
           IN  IF \E v \in {a, p} : v = NoneProp \/ v = <<>> \/ ~IsNumeric(v)
               THEN call_ret.weighted_amount = Null
               ELSE call_ret.weighted_amount = Some(Times(NumberOf(a), NumberOf(p)))

\* C16 witness: a zero amount with a fractional probability gives the
\* weighted amount zero (not null).
C16_Witness ==
    /\ call_pc = "done"
    /\ call_args.amount = <<"0">>
    /\ call_args.hs_deal_stage_probability = <<".", "5">>
    /\ call_ret.weighted_amount = Some(Decimal(0, 0))

\* C19: convert_hubspot_timestamp never raises; for the string written for
\* an instant in any supported shape (epoch milliseconds, ISO-8601 with or
\* without fractional seconds, with or without 'Z', bare date) the value
\* returned denotes that instant in UTC; for an empty input and for an
\* input of no supported shape it returns null.
C19_TimestampRoundTrip ==
    call_pc = "done"
        => IF call_args.shape = "none"
           THEN call_ret = Null
           ELSE /\ call_ret # Null
                /\ fromisoformat(call_ret[1])
                      = Some(Told(call_args.instant[1], call_args.shape))

\* C19 witness: an instant with a millisecond fraction written as epoch
\* milliseconds has been converted.
C19_Witness ==
    /\ call_pc = "done"
    /\ call_args.shape = "epoch_ms"
    /\ call_args.instant = <<DateTime(1970, 1, 2, 23, 59, 7, 5000)>>
    /\ call_ret # Null

\* The whole days from instant b to instant a of January 1970, counted on
\* the millisecond clock (rounded down).
WholeDaysBetween(a, b) ==
    LET us == (a.microsecond % 1000) - (b.microsecond % 1000)
        ms == EpochMs(a) - EpochMs(b) - (IF us < 0 THEN 1 ELSE 0)
    IN  IF ms >= 0 THEN ms \div 86400000
        ELSE -((-ms + 86399999) \div 86400000)

\* C17: days_since_created is the whole number of days from the creation
\* date to the snapshot instant (null without a parseable creation date);
\* days_in_current_stage is the whole number of days from the 'entered
\* stage' timestamp of the current stage id to the snapshot instant when
\* the deal has a parseable one, and equals days_since_created when the
\* stage id is empty or that property is absent, empty or unparseable.
C17_StageDurationFallback ==
    call_pc = "done"
        => LET snapshot == call_args.snapshot_timestamp
               Days(told) == IF told = <<>> THEN Null
                             ELSE Some(WholeDaysBetween(snapshot, told[1]))
               hasEntry == /\ call_args.props.dealstage = "s1"
                           /\ call_args.told.entered # <<>>
           IN  /\ call_ret.days_since_created = Days(call_args.told.createdate)
               /\ call_ret.days_in_current_stage =
                     IF hasEntry THEN Days(call_args.told.entered)
                     ELSE call_ret.days_since_created

\* C17 witness: a deal in a stage without entry timestamp, created a whole
\* day before the snapshot, gets the days since creation as its days in
\* the current stage.
C17_Witness ==
    /\ call_pc = "done"
    /\ call_args.props.dealstage = "s2"
    /\ call_args.told.entered # <<>>
    /\ call_args.told.createdate # <<>>
    /\ call_ret.days_since_created = Some(1)
    /\ call_ret.days_in_current_stage = Some(1)

\* The status a day count gets from an inclusive Green boundary and an
\* inclusive Yellow boundary.
Within(days, green, yellow, status) ==
    /\ status = "Green" <=> days <= green
    /\ status = "Yellow" <=> (green < days /\ days <= yellow)
    /\ status = "Red" <=> days > yellow

\* The boundaries of the early, mid and late categories.
CategoryBoundaries ==
    << [keywords |-> EarlyKeywords, green |-> 14, yellow |-> 30],
       [keywords |-> MidKeywords,   green |-> 30, yellow |-> 45],
       [keywords |-> LateKeywords,  green |-> 45, yellow |-> 60] >>

\* C18: the status follows inclusive upper boundaries per category: 14/30
\* for an early label, 30/45 for a mid label, 45/60 for a late label and
\* 21/45 for a label with no keyword, and a null day count gives Unknown.
\* The category of a label is the first one, in the order early, mid, late,
\* of which the label holds a keyword; the stalled/delayed labels have
\* their own rule.
C18_InclusiveBoundaries ==
    call_pc = "done"
        => LET label == Lower(call_args.dealstage)
               days == call_args.days_in_stage
               matching == {c \in 1..3 :
                              ContainsAny(label, CategoryBoundaries[c].keywords)}
               first == CHOOSE c \in matching : \A e \in matching : c <= e
           IN  IF days = Null THEN call_ret = "Unknown"
               ELSE ContainsAny(label, StalledKeywords)
                    \/ IF matching = {} THEN Within(days[1], 21, 45, call_ret)
                       ELSE Within(days[1], CategoryBoundaries[first].green,
                                   CategoryBoundaries[first].yellow, call_ret)

\* C28: for a stage label containing 'stalled' or 'delayed' the status is
\* Green up to 14 days in the stage and Yellow above, never Red.
C28_StalledBoundaries ==
    (/\ call_pc = "done"
     /\ call_args.days_in_stage # Null
     /\ ContainsAny(Lower(call_args.dealstage), StalledKeywords))
        => /\ call_ret = "Green" <=> call_args.days_in_stage[1] <= 14
           /\ call_ret = "Yellow" <=> call_args.days_in_stage[1] > 14
           /\ call_ret # "Red"

\* C18 witness: a mid-stage label at 45 days in the stage is Yellow.
C18_Witness ==
    /\ call_pc = "done"
    /\ call_args.dealstage = <<"D", "e", "m", "o">>
    /\ call_args.days_in_stage = Some(45)
    /\ call_ret = "Yellow"

EndsWith(str, suffix) ==
    /\ Len(str) >= Len(suffix)
    /\ SubSeq(str, Len(str) - Len(suffix) + 1, Len(str)) = suffix

\* The owners a listing returned: those of the pages before the failing one.
Returned(listing, fails) ==
    IF fails = 0 THEN listing
    ELSE SubSeq(listing, 1, Min((fails - 1) * MaxOwnersPerPage, Len(listing)))

\* C20: every owner id of the active listing has the entry built from the
\* active listing (the last one with that id), without an "(Archived)"
\* suffix, whatever the archived listing holds; every id that is in the
\* archived listing only has a name ending in "(Archived)"; and the call
\* returns the map, with all active entries, also when the archived
\* listing fails on one of its pages.
C20_OwnersMerge ==
    /\ call_pc # "raised"
    /\ call_pc = "done"
        => LET active == Returned(call_args.active, call_args.active_fails)
               archived == Returned(call_args.archived, call_args.archived_fails)
               activeIds == {active[i].id : i \in 1..Len(active)}
           IN  /\ \A i \in 1..Len(active) :
                     LET key == DecimalString(active[i].id)
                     IN  /\ key \in DOMAIN call_ret
                         /\ (\A j \in (i + 1)..Len(active) : active[j].id # active[i].id)
                                => call_ret[key] = ActiveEntry(active[i])
                         /\ ~EndsWith(call_ret[key].name, STR_Archived)
               /\ \A i \in 1..Len(archived) :
                     archived[i].id \notin activeIds
                        => /\ DecimalString(archived[i].id) \in DOMAIN call_ret
                           /\ EndsWith(call_ret[DecimalString(archived[i].id)].name,
                                       STR_Archived)

\* C20 witness: owner 1 is in both listings and keeps its active entry,
\* while owner 2, in the archived listing only, is marked as archived.
C20_Witness ==
    /\ call_pc = "done"
    /\ Len(call_args.active) = 1
    /\ call_args.active[1].id = 1
    /\ call_args.active_fails = 0
    /\ Len(call_args.archived) = 2
    /\ call_args.archived[1].id = 1
    /\ call_args.archived[1].first_name # call_args.active[1].first_name
    /\ call_args.archived[2].id = 2
    /\ call_args.archived_fails = 0
    /\ DOMAIN call_ret = {<<"1">>, <<"2">>}
    /\ call_ret[<<"1">>] = ActiveEntry(call_args.active[1])
    /\ EndsWith(call_ret[<<"2">>].name, STR_Archived)

\* C20 witness of the failure case: the archived listing fails on its
\* first page and the active entry is returned.
C20_WitnessArchivedFails ==
    /\ call_pc = "done"
    /\ Len(call_args.active) = 1
    /\ call_args.active_fails = 0
    /\ call_args.archived # <<>>
    /\ call_args.archived_fails = 1
    /\ DOMAIN call_ret = {DecimalString(call_args.active[1].id)}

Init == InitLoad /\ FetchOff /\ ContactsOff /\ TransformOff /\ EtlOff /\ CallOff

Next == NextLoad

Spec == Init /\ [][Next]_vars

SpecLoad == Init /\ [][NextLoad]_vars

SpecOverlap == Init /\ [][NextOverlap]_vars

SpecLoaders == Init /\ [][NextLoaders]_vars

InitFetch ==
    /\ LoadOff
    /\ ContactsOff
    /\ TransformOff
    /\ EtlOff
    /\ CallOff
    /\ \E src \in Sources, target \in PipelineIds \cup {NoneValue} :
          FetchStart(src, target)

SpecFetch == InitFetch /\ [][NextFetch]_vars

InitContacts ==
    /\ LoadOff
    /\ FetchOff
    /\ TransformOff
    /\ EtlOff
    /\ CallOff
    /\ ContactsStart

SpecContacts == InitContacts /\ [][NextContacts]_vars

InitTransform ==
    /\ LoadOff
    /\ FetchOff
    /\ ContactsOff
    /\ EtlOff
    /\ CallOff
    /\ TransformStart

SpecTransform == InitTransform /\ [][NextTransform]_vars

InitOff == LoadOff /\ FetchOff /\ ContactsOff /\ TransformOff /\ EtlOff

InitWeighted == InitOff /\ WeightedStart

SpecWeighted == InitWeighted /\ [][NextWeighted]_vars

InitTimestamp == InitOff /\ TimestampStart

SpecTimestamp == InitTimestamp /\ [][NextTimestamp]_vars

InitDays == InitOff /\ DaysStart

SpecDays == InitDays /\ [][NextDays]_vars

InitAge == InitOff /\ AgeStart

SpecAge == InitAge /\ [][NextAge]_vars

InitOwners == InitOff /\ OwnersStart

SpecOwners == InitOwners /\ [][NextOwners]_vars

InitEtl ==
    /\ InitLoad
    /\ FetchOff
    /\ ContactsOff
    /\ TransformOff
    /\ EtlIdle
    /\ now \in ClockInstants
    /\ CallOff

SpecEtl == InitEtl /\ [][NextEtl]_vars

InitBatch == InitOff /\ BatchStart

SpecBatch == InitBatch /\ [][NextBatch]_vars

\* A run of the pipeline over the warehouse an earlier run has left, started
\* on the date of that earlier run.
InitEtlRerun ==
    /\ dataset_exists = TRUE
    /\ tables = EarlierTables
    /\ ld_pc = [r \in Runs |-> "idle"]
    /\ ld_table = [r \in Runs |-> DEALS_TABLE]
    /\ ld_df = [r \in Runs |-> <<>>]
    /\ ld_ret = [r \in Runs |-> -1]
    /\ ld_prev = [r \in Runs |-> "idle"]
    /\ wh_lastCompleted =
          [t \in TableNames |->
              [d \in Dates |->
                  IF d # EarlierRun.date THEN <<>>
                  ELSE IF t = DEALS_TABLE
                  THEN DealsFrame(<<Deal(1, NoneValue)>>, EarlierRun)
                  ELSE MeetingsFrame(<<1>>, EarlierRun)]]
    /\ ld_repeat = FALSE
    /\ FetchOff
    /\ ContactsOff
    /\ TransformOff
    /\ EtlIdle
    /\ now \in {t \in ClockInstants : t.date = EarlierRun.date}
    /\ CallOff

NextEtlRerun == NextEtl \/ clock_tick

SpecEtlRerun == InitEtlRerun /\ [][NextEtlRerun]_vars

====
